---- MODULE Spec2Model ----
(***************************************************************************)
(* A model of the qa-dashboard ingestion pipeline (ingest.py, db.py).      *)
(*                                                                         *)
(*   SpecHttp  the retry loop of get_json, one action per loop iteration,  *)
(*             the remote's responses chosen freely.                       *)
(*   Spec      ingest(): the slice loop, the per-ticket pipeline, the      *)
(*             SQLite connection and its transaction, the process-wide     *)
(*             caches, and a remote helpdesk whose tickets change.         *)
(*             A remote call is taken by its outcome: a parsed result or   *)
(*             one of the errors get_json raises.                          *)
(*   SpecSlices, SpecGroups, SpecConc                                      *)
(*             the slice loop with its progress reports, one call of       *)
(*             get_user_group_names, and two runs of ingest() at once.     *)
(*   SpecLookups  get_user and get_group called again and again in one     *)
(*             process while the remote's records change.                  *)
(*   SpecScore, SpecBpo, SpecKeywords                                      *)
(*             one call of score_ticket (scoring.py), of                   *)
(*             infer_bpo_from_groups and of match_keywords (utils.py),     *)
(*             the arguments drawn from bounded sets.                      *)
(***************************************************************************)
EXTENDS Integers, Sequences, FiniteSets, TLC

VARIABLES
    \* ---- get_json (ingest.py 68-96)
    gj_pc,          \* "idle" | "loop" | "returned" | "raised"
    tries,          \* tries
    backoff,        \* backoff
    sleeps,         \* the durations passed to time.sleep, in order
    hist,           \* the responses received so far, in order
    outcome,        \* "none" | "ok" | "HTTPError" | "RuntimeError" | "ValueError"
    \* ---- the remote helpdesk
    remote,         \* ticket id -> the ticket as the remote holds it
    slot,           \* ticket id -> the slice of the window its updated_at falls in (0: none)
    group_down,     \* TRUE when GET /groups/{id}.json fails
    changes,        \* number of remote changes so far
    \* ---- the process
    pc,             \* position of ingest()
    runs,           \* number of ingest() calls started
    user_cache,     \* _user_cache
    group_cache,    \* _group_cache
    slice_idx,      \* slice_idx
    queue,          \* ids the search generator of the current slice has still to yield
    seen,           \* seen
    cur,            \* locals of the ticket being processed
    result,         \* what ingest() returned or raised
    \* ---- the store
    committed,      \* the database file as any other connection sees it
    conn,           \* the database as the run's connection sees it (committed + its open transaction)
    fts,            \* comments_fts
    \* ---- history kept for the properties
    wrote,          \* ticket id -> what this run upserted for it
    fetched,        \* ticket id -> what this run fetched for it
    start_empty,    \* the run started on an empty store
    ref,            \* the store as the first run of a quiet chain left it
    quiet,          \* the remote has not changed since that run started
    \* ---- the run's configuration and its trail
    creds,          \* the credentials that are set: SUBDOMAIN, EMAIL, TOKEN
    raised_by,      \* the call whose exception ended the run: "none" | "config" | "primary" | "user"
    requested,      \* the run has issued a remote request
    rebuilds,       \* rebuild_fts() calls of the run
    \* ---- the lookback window and its slices (ingest.py 239-259, 377), in hours
    sl_pc,          \* "idle" | "loop" | "done"
    now,            \* now
    start,          \* start
    cursor,         \* cursor
    windows,        \* the [cursor, window_end) pairs searched so far, in order
    total_slices,   \* total_slices
    reports,        \* the (step, total) pairs passed to progress_cb, in order
    \* ---- one call of get_user_group_names (ingest.py 138-156)
    g_pc,           \* "idle" | "call" | "returned"
    g_gids,         \* the group_id of each membership the remote returns, in order
    g_down,         \* the groups whose GET fails
    g_cache,        \* _group_cache at the call
    g_names,        \* names
    g_cache_after,  \* _group_cache at the return
    \* ---- two calls of ingest() at once on one database file
    c_pc,           \* run -> "idle" | "next" | "fetched" | "done" | "failed"
    c_todo,         \* run -> the ids its search has still to yield
    c_cur,          \* run -> locals of the ticket it is processing
    lock,           \* the run whose transaction holds SQLite's write lock, NoRun if none
    c_view,         \* the database as the lock holder's connection sees it
    last,           \* ticket id -> the run that upserted it last, and what it upserted
    \* ---- one call of a pure function: score_ticket, infer_bpo_from_groups, match_keywords
    fn_pc,          \* "idle" | "call" | "returned"
    fn_args,        \* the arguments of the call
    fn_ret,         \* what the call returned
    \* ---- lookups through the caches over the life of a process (ingest.py 100-135)
    l_remote,       \* kind -> id -> the state of the remote's user or group record
    group_records,  \* _group_cache, with the record cached for each id
    calls           \* the calls of get_user and get_group so far, in order

httpVars == <<gj_pc, tries, backoff, sleeps, hist, outcome>>
remoteVars == <<remote, slot, group_down, changes>>
procVars == <<pc, runs, user_cache, group_cache, slice_idx, queue, seen, cur, result>>
storeVars == <<committed, conn, fts>>
histVars == <<wrote, fetched, start_empty, ref, quiet>>
runVars == <<creds, raised_by, requested, rebuilds>>
sliceVars == <<sl_pc, now, start, cursor, windows, total_slices, reports>>
groupVars == <<g_pc, g_gids, g_down, g_cache, g_names, g_cache_after>>
concVars == <<c_pc, c_todo, c_cur, lock, c_view, last>>
fnVars == <<fn_pc, fn_args, fn_ret>>
lookVars == <<l_remote, group_records, calls>>
otherVars == <<sliceVars, groupVars, concVars, fnVars, lookVars>>
ingestVars == <<remoteVars, procVars, storeVars, histVars, runVars, otherVars>>
vars == <<httpVars, ingestVars>>

Min(a, b) == IF a <= b THEN a ELSE b

(***************************************************************************)
(* get_json                                                                *)
(***************************************************************************)
MaxTries == 5
InitialBackoff == 2
BackoffCap == 40
SleepCap429 == 20
SleepCap5xx == 10

NoHeader == "absent"
\* Retry-After as the remote may send it: delay-seconds, or an HTTP-date.
RetryAfterValues == {NoHeader, "0", "5", "120", "Wed, 21 Oct 2015 07:28:00 GMT"}

\* int(str): the strings Python parses as an integer, and their values.
IntLiterals == {"0", "5", "120"}
IntOf(s) == CASE s = "0" -> 0 [] s = "5" -> 5 [] s = "120" -> 120

FailFastMutant == {400, 401, 403, 422}
FailFast == {400, 401, 403, 404, 422}
Statuses == {200, 429, 500, 409, 400, 401, 403, 404, 422}
Responses ==
    {[status |-> s, retry_after |-> h] : s \in Statuses \ {429}, h \in {NoHeader}}
    \cup {[status |-> 429, retry_after |-> h] : h \in RetryAfterValues}

\* r.raise_for_status(): raises for 4xx and 5xx.
RaisesForStatus(status) == status >= 400 /\ status < 600

GjInit ==
    /\ gj_pc = "idle"
    /\ tries = 0
    /\ backoff = 0
    /\ sleeps = <<>>
    /\ hist = <<>>
    /\ outcome = "none"

\* lines 75-76
GjCall ==
    /\ gj_pc = "idle"
    /\ gj_pc' = "loop"
    /\ backoff' = InitialBackoff
    /\ tries' = 0
    /\ UNCHANGED <<sleeps, hist, outcome>>

\* lines 80-84: the 429 branch. int() raises ValueError on a header that is not an
\* integer literal, and time.sleep raises ValueError on a negative duration.
Gj429(r) ==
    IF r.retry_after # NoHeader /\ r.retry_after \notin IntLiterals
    THEN /\ gj_pc' = "raised"
         /\ outcome' = "ValueError"
         /\ UNCHANGED <<sleeps, backoff>>
    ELSE LET sleep_for == IF r.retry_after = NoHeader THEN backoff ELSE IntOf(r.retry_after)
         IN  IF Min(sleep_for, SleepCap429) < 0
             THEN /\ gj_pc' = "raised"
                  /\ outcome' = "ValueError"
                  /\ UNCHANGED <<sleeps, backoff>>
             ELSE /\ sleeps' = Append(sleeps, Min(sleep_for, SleepCap429))
                  /\ backoff' = Min(backoff * 2, BackoffCap)
                  /\ UNCHANGED <<gj_pc, outcome>>

\* lines 85-95: raise_for_status, the fail-fast statuses, the 5xx backoff, the return.
GjOther(r) ==
    IF RaisesForStatus(r.status)
    THEN IF r.status \in FailFast
         THEN /\ gj_pc' = "raised"
              /\ outcome' = "HTTPError"
              /\ UNCHANGED <<sleeps, backoff>>
         ELSE /\ sleeps' = Append(sleeps, Min(backoff, SleepCap5xx))
              /\ backoff' = Min(backoff * 2, BackoffCap)
              /\ UNCHANGED <<gj_pc, outcome>>
    ELSE /\ gj_pc' = "returned"
         /\ outcome' = "ok"
         /\ UNCHANGED <<sleeps, backoff>>

\* lines 77-95: one iteration of the while loop, the response r chosen by the remote.
GjAttempt(r) ==
    /\ gj_pc = "loop"
    /\ tries < MaxTries
    /\ tries' = tries + 1
    /\ hist' = Append(hist, r)
    /\ IF r.status = 429 THEN Gj429(r) ELSE GjOther(r)

\* line 96: the loop ended without a return.
GjGiveUp ==
    /\ gj_pc = "loop"
    /\ ~(tries < MaxTries)
    /\ gj_pc' = "raised"
    /\ outcome' = "RuntimeError"
    /\ UNCHANGED <<tries, backoff, sleeps, hist>>

(***************************************************************************)
(* The remote helpdesk                                                     *)
(***************************************************************************)
MaxRuns == 2        \* ingest() calls per behaviour
MaxChanges == 2     \* remote changes per behaviour
MaxComments == 2    \* comments of one remote ticket
MaxMacros == 2      \* ApplyMacro events of one remote ticket
NumSlices == 2      \* 6-hour slices of the lookback window

NoId == 0           \* an absent id: the code tests `not id`, true of None and of 0
TicketIds == {1, 2}
Slices == 1..NumSlices

\* The remote's users. gone is a deleted user (GET answers 404); sys is the
\* sentinel author id of system comments.
Ids == [req |-> 11, agent |-> 12, bot |-> 13, gone |-> 14, sys |-> 0 - 1, group |-> 7]
Directory == {Ids.req, Ids.agent, Ids.bot}
RemoteUser(id) ==
    CASE id = Ids.req -> [id |-> id, email |-> "player@mail.com", name |-> "Player"]
      [] id = Ids.agent -> [id |-> id, email |-> "agent@candivore.io", name |-> "Agent"]
      [] id = Ids.bot -> [id |-> id, email |-> "Ilya@Candivore.io", name |-> "Ilya"]

\* config.py 20-23, taken by ingest.py 45
BOT_EMAILS == {"ilya@candivore.io", "maor@candivore.io"}

\* The assignee's group memberships and the group.
GroupName == "ICX Tier 2"
\* The remote's groups: the assignee's, one whose record has no name, one more.
GroupIds == {Ids.group, 8, 9}
GroupNameFor(gid) ==
    CASE gid = Ids.group -> GroupName
      [] gid = 8 -> ""
      [] OTHER -> "Support"
Memberships(user_id) == IF user_id = Ids.agent THEN <<Ids.group>> ELSE <<>>

Subjects == {"A", "B"}
Bodies == {"<p>hi</p>"}
RemoteComments ==
    [author_id : {Ids.req, Ids.agent, Ids.bot, Ids.gone, Ids.sys}, public : BOOLEAN, body : Bodies]
PubReq == [author_id |-> Ids.req, public |-> TRUE, body |-> "<p>hi</p>"]
PubAgent == [author_id |-> Ids.agent, public |-> TRUE, body |-> "<p>hi</p>"]
\* What a remote change may append to a thread.
NewComments ==
    {c \in RemoteComments : (c.public /\ c.author_id # Ids.req) \/ (~c.public /\ c.author_id = Ids.agent)}

InitialTicket(id) ==
    [id |-> id, assignee_id |-> Ids.agent, requester_id |-> Ids.req, subject |-> "A",
     updated_at |-> 1, comments |-> <<PubReq, PubAgent>>, macros |-> <<>>]

RemoteInit ==
    /\ remote = [id \in TicketIds |-> InitialTicket(id)]
    /\ slot \in {f \in [TicketIds -> Slices] : f[1] = 1}
    /\ group_down = FALSE
    /\ changes = 0

RemoveAt(s, i) == [j \in 1..(Len(s) - 1) |-> IF j < i THEN s[j] ELSE s[j + 1]]

(***************************************************************************)
(* The store (db.py)                                                       *)
(***************************************************************************)
EmptyStore == [tickets |-> {}, comments |-> {}, audits |-> {}]

\* db.py 38-69: INSERT ... ON CONFLICT(id) DO UPDATE SET every other column.
\* The columns not modelled (status, created_at, csat, csat_offered, payer_tier,
\* language, topic, sub_topic, version, tags) are copied like subject.
UpsertTicketKeepOld(tickets, t) ==
    IF \E r \in tickets : r.id = t.id THEN tickets ELSE tickets \cup {t}
upsert_ticket(tickets, t) ==
    IF \E r \in tickets : r.id = t.id
    THEN {IF r.id = t.id
          THEN [r EXCEPT !.subject = t.subject,
                         !.updated_at = t.updated_at,
                         !.solved_at = t.solved_at,
                         !.requester_id = t.requester_id,
                         !.requester_email = t.requester_email,
                         !.assignee_id = t.assignee_id,
                         !.assignee_email = t.assignee_email,
                         !.assignee_name = t.assignee_name,
                         !.bpo = t.bpo]
          ELSE r : r \in tickets}
    ELSE tickets \cup {t}

\* A row of comments: the tuple's columns and the rowid SQLite gives an inserted
\* row (db.py 109 reads it): one more than the largest in the table.
NextRowid(comments) ==
    IF comments = {} THEN 1
    ELSE 1 + (CHOOSE n \in {r.rowid : r \in comments} : \A r \in comments : r.rowid <= n)
CommentRow(rowid, c) ==
    [rowid |-> rowid, ticket_id |-> c.ticket_id, idx |-> c.idx, public |-> c.public,
     author_id |-> c.author_id, author_email |-> c.author_email,
     author_name |-> c.author_name, body |-> c.body]

\* db.py 72-88: ON CONFLICT(ticket_id, idx) DO UPDATE SET every other column.
UpsertCommentReplaceThread(comments, c) ==
    {r \in comments : r.ticket_id # c.ticket_id \/ r.idx < c.idx}
        \cup {CommentRow(NextRowid(comments), c)}
UpsertCommentInsertOnly(comments, c) == comments \cup {CommentRow(NextRowid(comments), c)}
upsert_comment(comments, c) ==
    IF \E r \in comments : r.ticket_id = c.ticket_id /\ r.idx = c.idx
    THEN {IF r.ticket_id = c.ticket_id /\ r.idx = c.idx
          THEN [r EXCEPT !.public = c.public,
                         !.author_id = c.author_id,
                         !.author_email = c.author_email,
                         !.author_name = c.author_name,
                         !.body = c.body]
          ELSE r : r \in comments}
    ELSE comments \cup {CommentRow(NextRowid(comments), c)}

\* db.py 91-100: ON CONFLICT(ticket_id, created_at) DO UPDATE SET macro_titles.
upsert_audit(audits, a) ==
    IF \E r \in audits : r.ticket_id = a.ticket_id /\ r.created_at = a.created_at
    THEN {IF r.ticket_id = a.ticket_id /\ r.created_at = a.created_at
          THEN [r EXCEPT !.macro_titles = a.macro_titles]
          ELSE r : r \in audits}
    ELSE audits \cup {a}

\* ingest.py 366-367: the loop over public_comments.
RECURSIVE UpsertComments(_, _)
UpsertComments(comments, ctuples) ==
    IF ctuples = <<>> THEN comments
    ELSE UpsertComments(upsert_comment(comments, Head(ctuples)), Tail(ctuples))

\* db.py 103-113: comments_fts emptied and filled from comments.
FtsOfNone(comments) == {}
FtsOf(comments) == {[rowid |-> c.rowid, body |-> c.body] : c \in comments}

(***************************************************************************)
(* Users and groups (ingest.py 100-171)                                    *)
(***************************************************************************)
EmptyCache == [id \in {} |-> 0]
Stub(user_id) == [id |-> user_id, email |-> "", name |-> "Unknown"]

\* line 110: no remote call for a missing or non-positive id.
IsSentinelNullOnly(user_id) == user_id = NoId
IsSentinel(user_id) == user_id = NoId \/ user_id <= 0
\* lines 110-115: the lookup goes to the remote.
NeedsRemote(cache, user_id) == ~IsSentinel(user_id) /\ user_id \notin DOMAIN cache
\* lines 116-122: what a remote lookup that does not raise gives: the user, or the
\* stub on 400/404.
FetchedUser(user_id) == IF user_id \in Directory THEN RemoteUser(user_id) ELSE Stub(user_id)
\* lines 110-126: the value get_user returns when it does not raise.
get_user(cache, user_id) ==
    IF IsSentinel(user_id) THEN Stub(user_id)
    ELSE IF user_id \in DOMAIN cache THEN cache[user_id]
    ELSE FetchedUser(user_id)
\* line 125: the cache after that call.
CacheAfter(cache, user_id) ==
    IF NeedsRemote(cache, user_id) THEN (user_id :> FetchedUser(user_id)) @@ cache ELSE cache

\* The cache after get_user has returned for the first k ids of a list.
RECURSIVE CacheAfterAll(_, _, _)
CacheAfterAll(cache, ids, k) ==
    IF k = 0 THEN cache
    ELSE CacheAfter(CacheAfterAll(cache, ids, k - 1), ids[k])

\* Text is a sequence of characters. str.lower() on ASCII text.
UpperLetters ==
    <<"A", "B", "C", "D", "E", "F", "G", "H", "I", "J", "K", "L", "M", "N", "O", "P", "Q", "R",
      "S", "T", "U", "V", "W", "X", "Y", "Z">>
LowerLetters ==
    <<"a", "b", "c", "d", "e", "f", "g", "h", "i", "j", "k", "l", "m", "n", "o", "p", "q", "r",
      "s", "t", "u", "v", "w", "x", "y", "z">>
LowerChar(c) ==
    IF \E k \in 1..26 : UpperLetters[k] = c
    THEN LowerLetters[CHOOSE k \in 1..26 : UpperLetters[k] = c]
    ELSE c
LowerText(text) == [k \in 1..Len(text) |-> LowerChar(text[k])]
\* `w in t`
Occurs(w, t) == \E k \in 0..(Len(t) - Len(w)) : SubSeq(t, k + 1, k + Len(w)) = w
\* " ".join(texts)
Join(texts) ==
    IF texts = <<>> THEN <<>>
    ELSE LET all[k \in 1..Len(texts)] ==
                 IF k = 1 THEN texts[1] ELSE all[k - 1] \o <<" ">> \o texts[k]
         IN  all[Len(texts)]

\* The group names of the model, spelled out.
Spell(name) ==
    CASE name = "ICX Tier 2" -> <<"I", "C", "X", " ", "T", "i", "e", "r", " ", "2">>
      [] name = "Support" -> <<"S", "u", "p", "p", "o", "r", "t">>
      [] OTHER -> <<>>
Spelled(names) == [k \in 1..Len(names) |-> Spell(names[k])]

\* lines 159-171, group_names a list of texts.
NoBpo == "NULL"
InferBpoTgFirst(group_names) ==
    LET joined == Join([k \in 1..Len(group_names) |-> LowerText(group_names[k])])
    IN  IF Occurs(<<"t", "g">>, joined) \/ Occurs(<<"t", "e", "l", "u", "s">>, joined) THEN "TG"
        ELSE IF Occurs(<<"i", "c", "x">>, joined) THEN "ICX"
        ELSE IF Occurs(<<"c", "n", "x">>, joined)
                \/ Occurs(<<"c", "o", "n", "c", "e", "n", "t", "r", "i", "x">>, joined) THEN "CNX"
        ELSE NoBpo
infer_bpo_from_groups(group_names) ==
    LET joined == Join([k \in 1..Len(group_names) |-> LowerText(group_names[k])])
    IN  IF Occurs(<<"i", "c", "x">>, joined) THEN "ICX"
        ELSE IF Occurs(<<"t", "g">>, joined) \/ Occurs(<<"t", "e", "l", "u", "s">>, joined) THEN "TG"
        ELSE IF Occurs(<<"c", "n", "x">>, joined)
                \/ Occurs(<<"c", "o", "n", "c", "e", "n", "t", "r", "i", "x">>, joined) THEN "CNX"
        ELSE NoBpo

\* lines 129-135 and 149-155: the name a membership contributes, <<>> when the
\* group's fetch fails (swallowed) or the name is empty.
\* down is the set of groups whose GET fails.
GroupNameOfKeepEmpty(gcache, gid, down) ==
    IF gid \in gcache \/ gid \notin down THEN <<GroupNameFor(gid)>> ELSE <<>>
GroupNameOf(gcache, gid, down) ==
    IF gid \in gcache \/ gid \notin down
    THEN IF GroupNameFor(gid) = "" THEN <<>> ELSE <<GroupNameFor(gid)>>
    ELSE <<>>
GroupCacheAfter(gcache, gid, down) ==
    IF gid \in gcache \/ gid \in down THEN gcache ELSE gcache \cup {gid}

\* lines 138-156, when the memberships call succeeds.
RECURSIVE GroupNames(_, _, _)
GroupNames(gcache, gids, down) ==
    IF gids = <<>> THEN <<>>
    ELSE IF Head(gids) = NoId THEN GroupNames(gcache, Tail(gids), down)
    ELSE GroupNameOf(gcache, Head(gids), down)
         \o GroupNames(GroupCacheAfter(gcache, Head(gids), down), Tail(gids), down)
RECURSIVE GroupCacheAfterAll(_, _, _)
GroupCacheAfterAll(gcache, gids, down) ==
    IF gids = <<>> THEN gcache
    ELSE IF Head(gids) = NoId THEN GroupCacheAfterAll(gcache, Tail(gids), down)
    ELSE GroupCacheAfterAll(GroupCacheAfter(gcache, Head(gids), down), Tail(gids), down)

\* One call of get_user_group_names, its inputs drawn freely.
MaxMemberships == 3     \* memberships the remote returns for one user
MembershipLists == UNION {[1..n -> GroupIds \cup {NoId}] : n \in 0..MaxMemberships}

GroupIdle ==
    /\ g_pc = "idle"
    /\ g_gids = <<>>
    /\ g_down = {}
    /\ g_cache = {}
    /\ g_names = <<>>
    /\ g_cache_after = {}

GroupInit ==
    /\ g_pc = "call"
    /\ g_gids \in MembershipLists
    /\ g_down \in SUBSET GroupIds
    /\ g_cache \in SUBSET GroupIds
    /\ g_names = <<>>
    /\ g_cache_after = {}

\* lines 143-156: the memberships call has answered; the loop over them; the return.
GroupNamesCall ==
    /\ g_pc = "call"
    /\ g_names' = GroupNames(g_cache, g_gids, g_down)
    /\ g_cache_after' = GroupCacheAfterAll(g_cache, g_gids, g_down)
    /\ g_pc' = "returned"
    /\ UNCHANGED <<g_gids, g_down, g_cache>>

(***************************************************************************)
(* ingest() (ingest.py 222-382)                                            *)
(***************************************************************************)
\* str.lower() on the emails of the model.
Lower(s) == IF s = "Ilya@Candivore.io" THEN "ilya@candivore.io" ELSE s

\* What GET /tickets/{id}.json returns of the remote's ticket.
TicketFields(r) ==
    [id |-> r.id, assignee_id |-> r.assignee_id, requester_id |-> r.requester_id,
     subject |-> r.subject, updated_at |-> r.updated_at]
NoTicket == [id |-> 0, assignee_id |-> NoId, requester_id |-> NoId, subject |-> "", updated_at |-> 0]
NoCur ==
    [tid |-> 0, t |-> NoTicket, requester_email |-> "", assignee_email |-> "",
     assignee_name |-> "", comments |-> <<>>, public_comments |-> <<>>, macro_titles |-> <<>>]

NoResult == [type |-> "none", status |-> 0]
Summary == [type |-> "Ingest complete", status |-> 0]
Killed == [type |-> "killed", status |-> 0]
HTTPError(status) == [type |-> "HTTPError", status |-> status]
\* What get_json raises: ingest.py 90 (HTTPError), 96 (RuntimeError).
\* The fail-fast statuses the remote answers with here: one that get_user swallows
\* and one that it does not.
ErrorStatuses == {401, 404}
GetJsonErrors ==
    {HTTPError(s) : s \in ErrorStatuses \cap FailFast}
    \cup {[type |-> "RuntimeError", status |-> 0]}
\* lines 119-124: get_user swallows HTTPError 400 and 404 and re-raises the rest.
SwallowedOnly400 == {400}
SwallowedByGetUser == {400, 404}
GetUserErrors == {e \in GetJsonErrors : ~(e.type = "HTTPError" /\ e.status \in SwallowedByGetUser)}

\* db.py 22-26: the context manager commits on the way out, normal or exceptional.
OnExitRollback(file, view) == file
OnExit(file, view) == view

\* line 267
UnassignedNever(t) == FALSE
Unassigned(t) == t.assignee_id = NoId

\* line 280
BotAssigned(assignee_email) == assignee_email \in BOT_EMAILS

\* lines 288-307: the tuple of comment idx (zero-based), au the author get_user gave.
CommentTuple(tid, idx, c, au) ==
    [ticket_id |-> tid, idx |-> idx, public |-> IF c.public THEN 1 ELSE 0,
     author_id |-> c.author_id, author_email |-> Lower(au.email),
     author_name |-> IF au.name = "" THEN "Unknown" ELSE au.name, body |-> c.body]

\* lines 288-307: public_comments, built in order, the cache growing with each author.
PublicComments(cache, tid, comments) ==
    LET authors == [i \in 1..Len(comments) |-> comments[i].author_id]
    IN  [i \in 1..Len(comments) |->
            CommentTuple(tid, i - 1, comments[i],
                         get_user(CacheAfterAll(cache, authors, i - 1), authors[i]))]

\* line 310
IsHumanReplyNoEmailTest(ct, requester_email) ==
    ct.public = 1 /\ ct.author_email \notin BOT_EMAILS /\ ct.author_email # requester_email
IsHumanReply(ct, requester_email) ==
    /\ ct.public = 1
    /\ ct.author_email # ""
    /\ ct.author_email \notin BOT_EMAILS
    /\ ct.author_email # requester_email
\* lines 285, 310-311
HasHumanReplyAlways(public_comments, requester_email) == TRUE
HasHumanReply(public_comments, requester_email) ==
    \E i \in 1..Len(public_comments) : IsHumanReply(public_comments[i], requester_email)

\* lines 341-362
TicketRow(c, bpo) ==
    [id |-> c.t.id, subject |-> c.t.subject, updated_at |-> c.t.updated_at,
     solved_at |-> c.t.updated_at, requester_id |-> c.t.requester_id,
     requester_email |-> c.requester_email, assignee_id |-> c.t.assignee_id,
     assignee_email |-> c.assignee_email, assignee_name |-> c.assignee_name, bpo |-> bpo]

\* The ApplyMacro events of a ticket's audits are taken by their titles, in audit
\* order; NoTitle is an event that carries none.
NoTitle == ""
\* The k-th macro event of a ticket: its macro's title, or none.
MacroEventTitles(k) == {IF k = 1 THEN "Refund macro" ELSE "Apology macro", NoTitle}
\* lines 319-324: the titles of the ApplyMacro events that have one.
MacroTitlesOf(events) == SelectSeq(events, LAMBDA title : title # NoTitle)
\* line 370
WritesAuditAlways(macro_titles) == TRUE
WritesAudit(macro_titles) == macro_titles # <<>>

\* line 371: "|".join(macro_titles) is kept as the list of titles.
AuditRow(c) == [ticket_id |-> c.tid, created_at |-> c.t.updated_at, macro_titles |-> c.macro_titles]

\* lines 363-371: the three upserts of one ticket, on the run's connection.
WriteTicket(view, c, bpo) ==
    [tickets |-> upsert_ticket(view.tickets, TicketRow(c, bpo)),
     comments |-> UpsertComments(view.comments, c.public_comments),
     audits |-> IF WritesAudit(c.macro_titles) THEN upsert_audit(view.audits, AuditRow(c))
                ELSE view.audits]

(***************************************************************************)
(* The lookback window (ingest.py 239-259, 377), times in whole hours      *)
(***************************************************************************)
MaxDays == 2        \* the longest lookback, in days
SliceHours == 6     \* slice_size
\* days >= 1, whole or fractional: every whole number of hours from one day up.
LookbackHours == 24..(24 * MaxDays)
NowValues == {1000, 1003}

\* line 254
WindowEndNoClamp(c, n) == c + SliceHours
WindowEnd(c, n) == Min(c + SliceHours, n)

\* line 244, for a window of h whole hours
TotalSlices(h) == IF (h \div 6) + 1 >= 1 THEN (h \div 6) + 1 ELSE 1
MaxHeartbeats == 1  \* "Processed ~n tickets" reports of a run

SliceIdle ==
    /\ sl_pc = "idle"
    /\ now = 0
    /\ start = 0
    /\ cursor = 0
    /\ windows = <<>>
    /\ total_slices = 0
    /\ reports = <<>>

\* lines 239-252
SlInit ==
    /\ sl_pc = "loop"
    /\ now \in NowValues
    /\ \E h \in LookbackHours : start = now - h
    /\ cursor = start
    /\ windows = <<>>
    /\ total_slices = TotalSlices(now - start)
    /\ reports = <<[step |-> 0, total |-> total_slices]>>

\* lines 253-259 and 377: one iteration; the slice's search is issued and its pages
\* are read to the end before cursor moves.
SlSlice ==
    /\ sl_pc = "loop"
    /\ cursor < now
    /\ windows' = Append(windows, [s |-> cursor, e |-> WindowEnd(cursor, now)])
    /\ cursor' = WindowEnd(cursor, now)
    /\ reports' = Append(reports, [step |-> Len(windows) + 1, total |-> total_slices])
    /\ UNCHANGED <<sl_pc, now, start, total_slices>>

\* lines 373-375: the heartbeat after a ticket of the current slice, when the
\* number of seen ids is a multiple of 50.
SlHeartbeat ==
    /\ sl_pc = "loop"
    /\ windows # <<>>
    /\ Len(reports) - 1 - Len(windows) < MaxHeartbeats
    /\ reports' = Append(reports, [step |-> Len(windows), total |-> total_slices])
    /\ UNCHANGED <<sl_pc, now, start, cursor, windows, total_slices>>

\* lines 253 and 379-382: the loop condition fails; the last report.
SlExit ==
    /\ sl_pc = "loop"
    /\ ~(cursor < now)
    /\ sl_pc' = "done"
    /\ reports' = Append(reports, [step |-> total_slices, total |-> total_slices])
    /\ UNCHANGED <<now, start, cursor, windows, total_slices>>

\* lines 11-21 and 63: the three credentials, and _base()'s test of them.
Credentials == {"SUBDOMAIN", "EMAIL", "TOKEN"}
HasCredentialsNoTest == TRUE
HasCredentials == \A c \in Credentials : c \in creds
ConfigError == [type |-> "SystemExit", status |-> 0]

Orderings(S) ==
    {q \in [1..Cardinality(S) -> S] : \A i, j \in 1..Cardinality(S) : i # j => q[i] # q[j]}

ProcInit ==
    /\ pc = "idle"
    /\ runs = 0
    /\ user_cache = EmptyCache
    /\ group_cache = {}
    /\ slice_idx = 0
    /\ queue = <<>>
    /\ seen = {}
    /\ cur = NoCur
    /\ result = NoResult
    /\ committed = EmptyStore
    /\ conn = EmptyStore
    /\ fts = {}
    /\ wrote = EmptyCache
    /\ fetched = EmptyCache
    /\ start_empty = FALSE
    /\ ref = <<>>
    /\ quiet = FALSE
    /\ raised_by = "none"
    /\ requested = FALSE
    /\ rebuilds = 0

\* The environment of the process: any of the credentials may be unset.
CredInit == creds \in SUBSET Credentials

(***************************************************************************)
(* Two runs of ingest() at once (ingest.py 249-377, db.py 8-26)            *)
(*                                                                         *)
(* Each run has its own connection. sqlite3 opens a transaction before a   *)
(* run's first upsert and the run commits only when it leaves the with     *)
(* block, so the run that upserted first holds SQLite's write lock until   *)
(* it ends. The other run's upsert waits for the lock up to busy_timeout   *)
(* (5000 ms, db.py 20) and then raises OperationalError. The remote reads  *)
(* of one ticket are taken as one step here; Spec follows them one by one. *)
(***************************************************************************)
Runs == {1, 2}
NoRun == 0
OperationalError == [type |-> "OperationalError", status |-> 0]

ConcIdle ==
    /\ c_pc = [r \in Runs |-> "idle"]
    /\ c_todo = [r \in Runs |-> <<>>]
    /\ c_cur = [r \in Runs |-> NoCur]
    /\ lock = NoRun
    /\ c_view = EmptyStore
    /\ last = EmptyCache

\* lines 265-324: the ticket, its users, comments and audits as the remote holds
\* them at this moment.
CurOf(id) ==
    LET t == TicketFields(remote[id])
        requester == get_user(EmptyCache, t.requester_id)
        assignee == get_user(EmptyCache, t.assignee_id)
    IN  [tid |-> id, t |-> t,
         requester_email |-> Lower(requester.email),
         assignee_email |-> Lower(assignee.email),
         assignee_name |-> IF assignee.name = "" THEN "Unknown" ELSE assignee.name,
         comments |-> remote[id].comments,
         public_comments |-> PublicComments(EmptyCache, id, remote[id].comments),
         macro_titles |-> MacroTitlesOf(remote[id].macros)]

\* lines 267-269, 280-281, 314-315: the three rules that skip a ticket.
Skipped(c) ==
    \/ Unassigned(c.t)
    \/ BotAssigned(c.assignee_email)
    \/ ~HasHumanReply(c.public_comments, c.requester_email)

\* lines 327-328
BpoOf(c) == infer_bpo_from_groups(Spelled(GroupNames({}, Memberships(c.t.assignee_id), {})))

\* lines 249-259: a run starts; its search yields the tickets in some order.
CStart(r) ==
    /\ c_pc[r] = "idle"
    /\ \E q \in Orderings(TicketIds) : c_todo' = [c_todo EXCEPT ![r] = q]
    /\ c_pc' = [c_pc EXCEPT ![r] = "next"]
    /\ UNCHANGED <<c_cur, lock, c_view, last, committed>>

\* lines 259-324: the next ticket is fetched, and skipped or kept for writing.
CFetch(r) ==
    /\ c_pc[r] = "next"
    /\ c_todo[r] # <<>>
    /\ c_todo' = [c_todo EXCEPT ![r] = Tail(@)]
    /\ LET c == CurOf(Head(c_todo[r]))
       IN  IF Skipped(c)
           THEN UNCHANGED <<c_pc, c_cur>>
           ELSE /\ c_cur' = [c_cur EXCEPT ![r] = c]
                /\ c_pc' = [c_pc EXCEPT ![r] = "fetched"]
    /\ UNCHANGED <<lock, c_view, last, committed>>

\* lines 363-371: the upserts of the ticket, in the run's transaction; the first
\* of them takes the write lock.
CWrite(r) ==
    /\ c_pc[r] = "fetched"
    /\ lock \in {NoRun, r}
    /\ lock' = r
    /\ c_view' = WriteTicket(IF lock = r THEN c_view ELSE committed, c_cur[r], BpoOf(c_cur[r]))
    /\ last' = (c_cur[r].tid :> [run |-> r, ticket |-> TicketRow(c_cur[r], BpoOf(c_cur[r])),
                                 public_comments |-> c_cur[r].public_comments]) @@ last
    /\ c_pc' = [c_pc EXCEPT ![r] = "next"]
    /\ c_cur' = [c_cur EXCEPT ![r] = NoCur]
    /\ UNCHANGED <<c_todo, committed>>

\* db.py 20: the other run still holds the lock when busy_timeout has passed; the
\* upsert raises and the run ends, having written nothing.
CLocked(r) ==
    /\ c_pc[r] = "fetched"
    /\ lock \notin {NoRun, r}
    /\ c_pc' = [c_pc EXCEPT ![r] = "failed"]
    /\ c_cur' = [c_cur EXCEPT ![r] = NoCur]
    /\ UNCHANGED <<c_todo, lock, c_view, last, committed>>

\* lines 253, 377 and db.py 24-26: the loop ends, the run commits and closes.
CFinish(r) ==
    /\ c_pc[r] = "next"
    /\ c_todo[r] = <<>>
    /\ c_pc' = [c_pc EXCEPT ![r] = "done"]
    /\ IF lock = r
       THEN /\ committed' = OnExit(committed, c_view)
            /\ lock' = NoRun
            /\ c_view' = EmptyStore
       ELSE UNCHANGED <<committed, lock, c_view>>
    /\ UNCHANGED <<c_todo, c_cur, last>>

(***************************************************************************)
(* Scoring (scoring.py)                                                    *)
(*                                                                         *)
(* A ticket is read through the three fields score_ticket reads. None is   *)
(* an absent value; csat is None or <<n>>. cfg is taken by the set of its  *)
(* keys whose value is true: cfg.get(key, False) reads an absent key and a *)
(* false one alike.                                                        *)
(***************************************************************************)
MaxThread == 5      \* comments of a scored thread

NoArgs == <<>>

None == <<>>
CsatValues == {None} \cup {<<n>> : n \in 1..5}
PayerTiers == {"VIP", "Whale", "Minnow"}
Signals ==
    {"sensitive_hit", "is_complaint", "macro_mismatch", "multi_topic", "personalization",
     "empathy", "easy_only"}
ScoredTickets == [csat : CsatValues, payer_tier : PayerTiers, reopened_recently : BOOLEAN]

\* The threads scored here: the first n comments of three kinds of thread. One agent
\* answers in public; three authors take turns in public; a thread with an
\* internal note of a third author and a public comment without an author email.
ThreadAuthors == <<"player@mail.com", "agent@candivore.io", "lead@candivore.io">>
ThreadKinds == {"one_author", "three_authors", "notes"}
ThreadComment(kind, i) ==
    CASE kind = "one_author" -> [public |-> TRUE, author_email |-> ThreadAuthors[2]]
      [] kind = "three_authors" -> [public |-> TRUE, author_email |-> ThreadAuthors[(i % 3) + 1]]
      [] OTHER ->
            CASE i % 5 = 1 -> [public |-> TRUE, author_email |-> ThreadAuthors[1]]
              [] i % 5 = 2 -> [public |-> TRUE, author_email |-> ThreadAuthors[2]]
              [] i % 5 = 3 -> [public |-> FALSE, author_email |-> ThreadAuthors[3]]
              [] i % 5 = 4 -> [public |-> TRUE, author_email |-> ""]
              [] OTHER -> [public |-> TRUE, author_email |-> ThreadAuthors[2]]
Threads == {[i \in 1..n |-> ThreadComment(kind, i)] : kind \in ThreadKinds, n \in 0..MaxThread}

\* The default weights (spec 4.5; no file of src/ sets them).
DefaultWeights ==
    [low_csat |-> 15, sensitive |-> 20, multi_agents |-> 10, vip_complaint |-> 15,
     reopened |-> 10, macro_mismatch |-> 10, long_thread |-> 8, multi_topic |-> 8,
     excellent_personalization |-> 20, empathy |-> 5, easy_issue_penalty |-> 0 - 20]
\* An override of every weight; no two sets of rules have the same sum.
OverriddenWeights ==
    [low_csat |-> 1, sensitive |-> 2, multi_agents |-> 4, vip_complaint |-> 8,
     reopened |-> 16, macro_mismatch |-> 32, long_thread |-> 64, multi_topic |-> 128,
     excellent_personalization |-> 256, empathy |-> 512, easy_issue_penalty |-> 0 - 1024]

\* scoring.py 8-9
LongThreadCountsAll(comments) == Len(comments) > 4
long_thread(comments) == Cardinality({i \in 1..Len(comments) : comments[i].public}) > 4

\* scoring.py 10-14
multiple_humans_in_thread(comments) ==
    LET emails == {comments[i].author_email :
                      i \in {j \in 1..Len(comments) :
                                comments[j].public /\ comments[j].author_email # ""}}
    IN  Cardinality(emails) > 2

\* scoring.py 34, the condition
EasyOnlyDespiteSensitive(cfg) == "easy_only" \in cfg
EasyOnly(cfg) == "easy_only" \in cfg /\ ~("sensitive_hit" \in cfg)

\* One statement of lines 24-34: `if cond: s += w; reasons.append(label)`.
Fire(acc, cond, w, label) ==
    IF cond THEN [s |-> acc.s + w, reasons |-> Append(acc.reasons, label)] ELSE acc

\* scoring.py 21-35. The label of line 29 is written with a plain hyphen here.
score_ticket(t, comments, weights, cfg) ==
    LET csat == t.csat
        r0 == [s |-> 0, reasons |-> <<>>]
        r1 == Fire(r0, csat # None /\ csat[1] <= 2, weights.low_csat, "Low CSAT")
        r2 == Fire(r1, "sensitive_hit" \in cfg, weights.sensitive, "Sensitive keyword")
        r3 == Fire(r2, multiple_humans_in_thread(comments), weights.multi_agents,
                   "Multiple authors")
        r4 == Fire(r3, t.payer_tier \in {"VIP", "Whale"} /\ "is_complaint" \in cfg,
                   weights.vip_complaint, "VIP complaint")
        r5 == Fire(r4, t.reopened_recently, weights.reopened, "Reopened")
        r6 == Fire(r5, "macro_mismatch" \in cfg, weights.macro_mismatch, "Macro-topic mismatch")
        r7 == Fire(r6, long_thread(comments), weights.long_thread, "Long thread")
        r8 == Fire(r7, "multi_topic" \in cfg, weights.multi_topic, "Multi-topic")
        r9 == Fire(r8, (csat # None /\ csat[1] >= 5) /\ "personalization" \in cfg,
                   weights.excellent_personalization, "Personalized & positive")
        r10 == Fire(r9, "empathy" \in cfg, weights.empathy, "Empathy")
        r11 == Fire(r10, EasyOnly(cfg), weights.easy_issue_penalty, "Easy tech-only")
    IN  <<r11.s, r11.reasons>>

\* One call of score_ticket, its arguments drawn freely.
ScoreInit ==
    /\ fn_pc = "call"
    /\ fn_args \in [t : ScoredTickets, comments : Threads,
                    weights : {DefaultWeights, OverriddenWeights}, cfg : SUBSET Signals]
    /\ fn_ret = NoArgs
ScoreCall ==
    /\ fn_pc = "call"
    /\ fn_ret' = score_ticket(fn_args.t, fn_args.comments, fn_args.weights, fn_args.cfg)
    /\ fn_pc' = "returned"
    /\ UNCHANGED fn_args

(***************************************************************************)
(* One call of infer_bpo_from_groups (ingest.py 159-171)                   *)
(***************************************************************************)
MaxGroupNames == 2      \* names in the list passed to infer_bpo_from_groups
MaxShortName == 2       \* characters of a short group name

\* Group names: some written out, and every short text over the letters of the
\* partner fragments.
WrittenNames ==
    {<<"I", "C", "X", " ", "T", "i", "e", "r", " ", "2">>,
     <<"U", "n", "r", "e", "l", "a", "t", "e", "d", " ", "T", "e", "a", "m">>,
     <<"T", "E", "L", "U", "S", " ", "I", "n", "t", "l">>,
     <<"C", "o", "n", "c", "e", "n", "t", "r", "i", "x">>,
     <<"C", "N", "X", " ", "N", "i", "g", "h", "t">>,
     <<"T", "G", " ", "D", "a", "y">>,
     <<"O", "u", "t", "g", "o", "i", "n", "g">>,
     <<"b", "o", "t", "i", "c", "X">>}
FragmentLetters == {"i", "c", "x", "t", "g", "n"}
ShortNames == UNION {[1..n -> FragmentLetters] : n \in 0..MaxShortName}
BpoNames == WrittenNames \cup ShortNames
BpoNameLists == UNION {[1..n -> BpoNames] : n \in 0..MaxGroupNames}

BpoInit ==
    /\ fn_pc = "call"
    /\ fn_args \in [group_names : BpoNameLists]
    /\ fn_ret = NoArgs
BpoCall ==
    /\ fn_pc = "call"
    /\ fn_ret' = <<infer_bpo_from_groups(fn_args.group_names)>>
    /\ fn_pc' = "returned"
    /\ UNCHANGED fn_args

(***************************************************************************)
(* One call of match_keywords (utils.py 3-13)                              *)
(***************************************************************************)
MaxText == 3        \* characters of a short text
MaxTermLen == 2     \* characters of a short term
MaxTerms == 2       \* terms in the include list

\* \s of the texts here: space, tab, newline.
Whitespace == {" ", "\t", "\n"}
RECURSIVE DropLeadingWhitespace(_)
DropLeadingWhitespace(text) ==
    IF text # <<>> /\ Head(text) \in Whitespace THEN DropLeadingWhitespace(Tail(text)) ELSE text
\* re.sub(r"\s+", " ", text)
RECURSIVE CollapseWhitespace(_)
CollapseWhitespace(text) ==
    IF text = <<>> THEN <<>>
    ELSE IF Head(text) \in Whitespace
         THEN <<" ">> \o CollapseWhitespace(DropLeadingWhitespace(text))
         ELSE <<Head(text)>> \o CollapseWhitespace(Tail(text))
Reverse(text) == [k \in 1..Len(text) |-> text[Len(text) + 1 - k]]
\* str.strip()
Strip(text) == Reverse(DropLeadingWhitespace(Reverse(DropLeadingWhitespace(text))))

\* utils.py 3-5
NormalizeKeepCase(text) == IF text = <<>> THEN <<>> ELSE Strip(CollapseWhitespace(text))
normalize(text) == IF text = <<>> THEN <<>> ELSE LowerText(Strip(CollapseWhitespace(text)))

\* utils.py 6-13. A regex pattern here is a literal: letters and spaces, searched
\* with re.I in the lowercased text.
match_keywords(text, include, mode) ==
    LET t == normalize(text)
    IN  IF include = <<>> THEN TRUE
        ELSE IF mode = "regex" THEN \E k \in 1..Len(include) : Occurs(LowerText(include[k]), t)
        ELSE IF mode = "phrase" THEN \E k \in 1..Len(include) : Occurs(LowerText(include[k]), t)
        ELSE IF mode = "any" THEN \E k \in 1..Len(include) : Occurs(LowerText(include[k]), t)
        ELSE IF mode = "all" THEN \A k \in 1..Len(include) : Occurs(LowerText(include[k]), t)
        ELSE TRUE

CrashText ==
    <<"t", "h", "e", " ", "g", "a", "m", "e", " ", "k", "e", "e", "p", "s", " ", "c", "r",
    "a", "s", "h", "i", "n", "g", " ", "o", "n", " ", "c", "o", "n", "n", "e", "c", "t">>
WrittenTerms ==
    {<<"c", "r", "a", "s", "h">>,
     <<"c", "o", "n", "n", "e", "c", "t">>,
     <<"r", "e", "f", "u", "n", "d">>}
TextLetters == {"a", "B", " ", "\t"}
TermLetters == {"a", "B", " "}
KeywordTexts == {CrashText} \cup UNION {[1..n -> TextLetters] : n \in 0..MaxText}
KeywordTerms == WrittenTerms \cup UNION {[1..n -> TermLetters] : n \in 0..MaxTermLen}
IncludeLists == UNION {[1..n -> KeywordTerms] : n \in 0..MaxTerms}
KeywordModes == {"any", "all", "phrase", "regex", "exact"}

KeywordsInit ==
    /\ fn_pc = "call"
    /\ fn_args \in [text : KeywordTexts, include : IncludeLists, mode : KeywordModes]
    /\ fn_ret = NoArgs
KeywordsCall ==
    /\ fn_pc = "call"
    /\ fn_ret' = <<match_keywords(fn_args.text, fn_args.include, fn_args.mode)>>
    /\ fn_pc' = "returned"
    /\ UNCHANGED fn_args

(***************************************************************************)
(* Lookups through the caches over the life of a process                   *)
(* (ingest.py 100-135)                                                     *)
(*                                                                         *)
(* The remote's record of a user or group is in its first state "v1", a    *)
(* changed state "v2", or "gone" (GET answers 404). A request may also     *)
(* fail for a passing reason, whatever the record's state.                 *)
(***************************************************************************)
MaxCalls == 4       \* lookups and calls of ingest() in one behaviour

LookUserIds == {Ids.req}
LookGroupIds == {Ids.group}
RecordStates == {"v1", "v2", "gone"}
UserRecord(id, state) ==
    [id |-> id, email |-> "player@mail.com", name |-> IF state = "v1" THEN "Player" ELSE "Renamed"]
GroupRecord(gid, state) ==
    [id |-> gid, name |-> IF state = "v1" THEN "ICX Tier 2" ELSE "TG Day"]
NoFailure == NoResult
\* What the request of a record raises, NoFailure when it answers 200.
RequestFailure(state, passing) ==
    IF passing # NoFailure THEN passing
    ELSE IF state = "gone" THEN HTTPError(404)
    ELSE NoFailure

\* line 125
StoreUserNever(cache, user_id, user) == cache
StoreUser(cache, user_id, user) == (user_id :> user) @@ cache

LookInit ==
    /\ l_remote = [users |-> [id \in LookUserIds |-> "v1"], groups |-> [gid \in LookGroupIds |-> "v1"]]
    /\ group_records = EmptyCache
    /\ calls = <<>>

\* lines 103-126: one call of get_user
GetUserCall(user_id, passing) ==
    /\ Len(calls) < MaxCalls
    /\ LET failure == RequestFailure(l_remote.users[user_id], passing)
           swallowed == failure.type = "HTTPError" /\ failure.status \in SwallowedByGetUser
           user == IF swallowed THEN Stub(user_id) ELSE UserRecord(user_id, l_remote.users[user_id])
       IN  IF IsSentinel(user_id)
           THEN /\ passing = NoFailure
                /\ calls' = Append(calls, [fn |-> "get_user", id |-> user_id, requested |-> FALSE,
                                           outcome |-> "returned", value |-> Stub(user_id)])
                /\ UNCHANGED user_cache
           ELSE IF user_id \in DOMAIN user_cache
           THEN /\ passing = NoFailure
                /\ calls' = Append(calls, [fn |-> "get_user", id |-> user_id, requested |-> FALSE,
                                           outcome |-> "returned", value |-> user_cache[user_id]])
                /\ UNCHANGED user_cache
           ELSE IF failure # NoFailure /\ ~swallowed
           THEN /\ calls' = Append(calls, [fn |-> "get_user", id |-> user_id, requested |-> TRUE,
                                           outcome |-> "raised", value |-> failure])
                /\ UNCHANGED user_cache
           ELSE /\ calls' = Append(calls, [fn |-> "get_user", id |-> user_id, requested |-> TRUE,
                                           outcome |-> "returned", value |-> user])
                /\ user_cache' = StoreUser(user_cache, user_id, user)
    /\ UNCHANGED <<l_remote, group_records, changes>>

\* lines 129-135: one call of get_group
GetGroupCall(group_id, passing) ==
    /\ Len(calls) < MaxCalls
    /\ LET failure == RequestFailure(l_remote.groups[group_id], passing)
           grp == GroupRecord(group_id, l_remote.groups[group_id])
       IN  IF group_id \in DOMAIN group_records
           THEN /\ passing = NoFailure
                /\ calls' = Append(calls, [fn |-> "get_group", id |-> group_id, requested |-> FALSE,
                                           outcome |-> "returned", value |-> group_records[group_id]])
                /\ UNCHANGED group_records
           ELSE IF failure # NoFailure
           THEN /\ calls' = Append(calls, [fn |-> "get_group", id |-> group_id, requested |-> TRUE,
                                           outcome |-> "raised", value |-> failure])
                /\ UNCHANGED group_records
           ELSE /\ calls' = Append(calls, [fn |-> "get_group", id |-> group_id, requested |-> TRUE,
                                           outcome |-> "returned", value |-> grp])
                /\ group_records' = (group_id :> grp) @@ group_records
    /\ UNCHANGED <<l_remote, user_cache, changes>>

\* lines 222-252: a call of ingest() begins; the caches are module globals and no
\* statement of ingest() empties them.
IngestCalled ==
    /\ Len(calls) < MaxCalls
    /\ calls # <<>>
    /\ calls[Len(calls)].fn # "ingest"
    /\ calls' = Append(calls, [fn |-> "ingest", id |-> NoId, requested |-> FALSE,
                               outcome |-> "called", value |-> NoResult])
    /\ UNCHANGED <<l_remote, user_cache, group_records, changes>>

\* The remote's record changes.
RecordChanges(kind, id, state) ==
    /\ changes < MaxChanges
    /\ id \in DOMAIN l_remote[kind]
    /\ l_remote[kind][id] # state
    /\ l_remote' = [l_remote EXCEPT ![kind][id] = state]
    /\ changes' = changes + 1
    /\ UNCHANGED <<user_cache, group_records, calls>>

\* The parts of the model a specification does not exercise, at rest.
FnIdle == fn_pc = "idle" /\ fn_args = NoArgs /\ fn_ret = NoArgs
LookIdle == l_remote = <<>> /\ group_records = EmptyCache /\ calls = <<>>
OtherIdle == SliceIdle /\ GroupIdle /\ ConcIdle /\ FnIdle /\ LookIdle

Init == GjInit /\ RemoteInit /\ ProcInit /\ CredInit /\ OtherIdle

Running == {"slice", "results", "get_ticket", "get_users", "get_comments", "get_audits", "get_groups"}

\* lines 197-218: what the pages of the search of slice k yield: the tickets updated
\* in the slice, in some order, and possibly once more an id the remote has
\* already returned in this slice or an earlier one (pages overlap when the
\* result set shifts between page requests).
SearchAnswers(k) ==
    LET fresh == Orderings({id \in TicketIds : slot[id] = k})
    IN  fresh \cup {Append(q, id) : q \in fresh, id \in {i \in TicketIds : slot[i] <= k}}

\* lines 260-262
AlreadySeenNever(tid, s) == FALSE
AlreadySeen(tid, s) == tid \in s

\* lines 233-252: a call of ingest(); the connection of line 249 opens on the file.
StartIngest ==
    /\ pc \in {"idle", "done", "aborted"}
    /\ runs < MaxRuns
    /\ runs' = runs + 1
    /\ pc' = "slice"
    /\ slice_idx' = 0
    /\ seen' = {}
    /\ queue' = <<>>
    /\ cur' = NoCur
    /\ result' = NoResult
    /\ conn' = committed
    /\ wrote' = EmptyCache
    /\ fetched' = EmptyCache
    /\ start_empty' = (committed = EmptyStore)
    /\ quiet' = IF ref = <<>> THEN TRUE ELSE quiet
    /\ raised_by' = "none"
    /\ requested' = FALSE
    /\ rebuilds' = 0
    /\ UNCHANGED <<remoteVars, user_cache, group_cache, committed, fts, ref, creds, httpVars,
                   otherVars>>

\* lines 253-259: the next slice; its search is issued and answers with the ids of
\* the tickets updated in the slice, in some order.
StartSlice ==
    /\ pc = "slice"
    /\ slice_idx < NumSlices
    /\ HasCredentials
    /\ requested' = TRUE
    /\ slice_idx' = slice_idx + 1
    /\ queue' \in SearchAnswers(slice_idx + 1)
    /\ pc' = "results"
    /\ UNCHANGED <<remoteVars, runs, user_cache, group_cache, seen, cur, result,
                   storeVars, histVars, httpVars, creds, raised_by, rebuilds,
                   otherVars>>

\* lines 259-262: the generator yields an id; a seen id is skipped.
NextResult ==
    /\ pc = "results"
    /\ queue # <<>>
    /\ queue' = Tail(queue)
    /\ IF AlreadySeen(Head(queue), seen)
       THEN UNCHANGED <<pc, seen, cur>>
       ELSE /\ seen' = seen \cup {Head(queue)}
            /\ cur' = [NoCur EXCEPT !.tid = Head(queue)]
            /\ pc' = "get_ticket"
    /\ UNCHANGED <<remoteVars, runs, user_cache, group_cache, slice_idx, result,
                   storeVars, histVars, httpVars, runVars, otherVars>>

\* line 377: the generator is exhausted.
EndSlice ==
    /\ pc = "results"
    /\ queue = <<>>
    /\ pc' = "slice"
    /\ UNCHANGED <<remoteVars, runs, user_cache, group_cache, slice_idx, queue, seen, cur,
                   result, storeVars, histVars, httpVars, runVars, otherVars>>

\* lines 265-269
GetTicket ==
    /\ pc = "get_ticket"
    /\ LET t == TicketFields(remote[cur.tid])
       IN  /\ fetched' = (cur.tid :> [assignee_id |-> t.assignee_id, comments |-> <<>>,
                                      audits |-> <<>>, finished |-> Unassigned(t)]) @@ fetched
           /\ IF Unassigned(t)
              THEN pc' = "results" /\ cur' = NoCur
              ELSE pc' = "get_users" /\ cur' = [cur EXCEPT !.t = t]
    /\ UNCHANGED <<remoteVars, runs, user_cache, group_cache, slice_idx, queue, seen, result,
                   storeVars, wrote, start_empty, ref, quiet, httpVars, runVars, otherVars>>

\* lines 272-281
GetUsers ==
    /\ pc = "get_users"
    /\ LET ids == <<cur.t.requester_id, cur.t.assignee_id>>
           requester == get_user(user_cache, ids[1])
           assignee == get_user(CacheAfterAll(user_cache, ids, 1), ids[2])
           assignee_email == Lower(assignee.email)
       IN  /\ user_cache' = CacheAfterAll(user_cache, ids, 2)
           /\ IF BotAssigned(assignee_email)
              THEN /\ pc' = "results"
                   /\ cur' = NoCur
                   /\ fetched' = [fetched EXCEPT ![cur.tid].finished = TRUE]
              ELSE /\ pc' = "get_comments"
                   /\ cur' = [cur EXCEPT !.requester_email = Lower(requester.email),
                                         !.assignee_email = assignee_email,
                                         !.assignee_name =
                                             IF assignee.name = "" THEN "Unknown" ELSE assignee.name]
                   /\ UNCHANGED fetched
    /\ UNCHANGED <<remoteVars, runs, group_cache, slice_idx, queue, seen, result,
                   storeVars, wrote, start_empty, ref, quiet, httpVars, runVars, otherVars>>

\* lines 284-315
GetComments ==
    /\ pc = "get_comments"
    /\ LET comments == remote[cur.tid].comments
           authors == [i \in 1..Len(comments) |-> comments[i].author_id]
           public_comments == PublicComments(user_cache, cur.tid, comments)
       IN  /\ user_cache' = CacheAfterAll(user_cache, authors, Len(authors))
           /\ fetched' = [fetched EXCEPT ![cur.tid].comments = comments,
                                         ![cur.tid].finished =
                                             ~HasHumanReply(public_comments, cur.requester_email)]
           /\ IF ~HasHumanReply(public_comments, cur.requester_email)
              THEN pc' = "results" /\ cur' = NoCur
              ELSE /\ pc' = "get_audits"
                   /\ cur' = [cur EXCEPT !.comments = comments,
                                         !.public_comments = public_comments]
    /\ UNCHANGED <<remoteVars, runs, group_cache, slice_idx, queue, seen, result,
                   storeVars, wrote, start_empty, ref, quiet, httpVars, runVars, otherVars>>

\* lines 318-324
GetAuditsWritesEarly ==
    /\ pc = "get_audits"
    /\ cur' = [cur EXCEPT !.macro_titles = MacroTitlesOf(remote[cur.tid].macros)]
    /\ fetched' = [fetched EXCEPT ![cur.tid].audits = remote[cur.tid].macros]
    /\ conn' = WriteTicket(conn, cur', NoBpo)
    /\ pc' = "get_groups"
    /\ UNCHANGED <<remoteVars, runs, user_cache, group_cache, slice_idx, queue, seen, result,
                   committed, fts, wrote, start_empty, ref, quiet, httpVars, runVars, otherVars>>
GetAudits ==
    /\ pc = "get_audits"
    /\ cur' = [cur EXCEPT !.macro_titles = MacroTitlesOf(remote[cur.tid].macros)]
    /\ fetched' = [fetched EXCEPT ![cur.tid].audits = remote[cur.tid].macros]
    /\ pc' = "get_groups"
    /\ UNCHANGED <<remoteVars, runs, user_cache, group_cache, slice_idx, queue, seen, result,
                   storeVars, wrote, start_empty, ref, quiet, httpVars, runVars, otherVars>>

\* The groups whose GET fails while the remote's groups endpoint is down.
DownGroups == IF group_down THEN GroupIds ELSE {}

\* lines 327-371: the memberships call answers; the ticket is written.
GetGroupsAndWrite ==
    /\ pc = "get_groups"
    /\ LET gids == Memberships(cur.t.assignee_id)
           bpo == infer_bpo_from_groups(Spelled(GroupNames(group_cache, gids, DownGroups)))
       IN  /\ group_cache' = GroupCacheAfterAll(group_cache, gids, DownGroups)
           /\ conn' = WriteTicket(conn, cur, bpo)
           /\ wrote' = (cur.tid :> [ticket |-> TicketRow(cur, bpo),
                                    comments |-> cur.comments,
                                    public_comments |-> cur.public_comments,
                                    macro_titles |-> cur.macro_titles]) @@ wrote
    /\ fetched' = [fetched EXCEPT ![cur.tid].finished = TRUE]
    /\ pc' = "results"
    /\ cur' = NoCur
    /\ UNCHANGED <<remoteVars, runs, user_cache, slice_idx, queue, seen, result,
                   committed, fts, start_empty, ref, quiet, httpVars, runVars, otherVars>>

\* lines 254, 259, 208 and 63-64: the first search of the run builds its URL with
\* _base(), which raises SystemExit before any request; the with block of line
\* 249 is left, the interpreter exits.
MissingCredentials ==
    /\ pc = "slice"
    /\ slice_idx < NumSlices
    /\ ~HasCredentials
    /\ slice_idx' = slice_idx + 1
    /\ pc' = "exited"
    /\ result' = ConfigError
    /\ raised_by' = "config"
    /\ committed' = OnExit(committed, conn)
    /\ conn' = OnExit(committed, conn)
    /\ UNCHANGED <<remoteVars, runs, user_cache, group_cache, queue, seen, cur, fts, histVars,
                   httpVars, creds, requested, rebuilds, otherVars>>

\* An exception leaves ingest() through the with block of line 249.
Raise(e) ==
    /\ pc' = "aborted"
    /\ result' = e
    /\ committed' = OnExit(committed, conn)
    /\ conn' = OnExit(committed, conn)
    /\ queue' = <<>>
    /\ cur' = NoCur
    /\ UNCHANGED <<remoteVars, runs, group_cache, slice_idx, seen, fts, histVars, httpVars,
                   creds, requested, rebuilds, otherVars>>

\* get_json raises in a call ingest() does not guard: the search (a page of it),
\* the ticket, the comments, the audits, the group memberships.
PrimaryCallFails(e) ==
    /\ \/ pc = "slice" /\ slice_idx < NumSlices /\ HasCredentials
       \/ pc = "results" /\ queue # <<>>
       \/ pc \in {"get_ticket", "get_comments", "get_audits", "get_groups"}
    /\ UNCHANGED user_cache
    /\ raised_by' = "primary"
    /\ Raise(e)

\* lines 272-275 and 116-124: the k-th user lookup of the step raises.
UserLookupFails(k, e) ==
    /\ pc = "get_users"
    /\ LET ids == <<cur.t.requester_id, cur.t.assignee_id>>
       IN  /\ NeedsRemote(CacheAfterAll(user_cache, ids, k - 1), ids[k])
           /\ user_cache' = CacheAfterAll(user_cache, ids, k - 1)
    /\ raised_by' = "user"
    /\ Raise(e)

\* lines 288-290 and 116-124: the lookup of the k-th comment's author raises.
AuthorLookupFails(k, e) ==
    /\ pc = "get_comments"
    /\ k <= Len(remote[cur.tid].comments)
    /\ LET comments == remote[cur.tid].comments
           authors == [i \in 1..Len(comments) |-> comments[i].author_id]
       IN  /\ NeedsRemote(CacheAfterAll(user_cache, authors, k - 1), authors[k])
           /\ user_cache' = CacheAfterAll(user_cache, authors, k - 1)
    /\ raised_by' = "user"
    /\ Raise(e)

\* lines 253 and 377-379: the loop ends, the with block commits and closes.
EndLoop ==
    /\ pc = "slice"
    /\ ~(slice_idx < NumSlices)
    /\ committed' = OnExit(committed, conn)
    /\ conn' = OnExit(committed, conn)
    /\ ref' = IF ref = <<>> /\ quiet THEN <<OnExit(committed, conn)>> ELSE ref
    /\ pc' = "rebuild"
    /\ UNCHANGED <<remoteVars, runs, user_cache, group_cache, slice_idx, queue, seen, cur,
                   result, fts, wrote, fetched, start_empty, quiet, httpVars, runVars, otherVars>>

\* lines 379-382
Rebuild ==
    /\ pc = "rebuild"
    /\ fts' = FtsOf(committed.comments)
    /\ rebuilds' = rebuilds + 1
    /\ result' = Summary
    /\ pc' = "done"
    /\ UNCHANGED <<remoteVars, runs, user_cache, group_cache, slice_idx, queue, seen, cur,
                   committed, conn, histVars, httpVars, creds, raised_by, requested,
                   otherVars>>

\* The process is killed: nothing of it runs any more, and SQLite drops the
\* transaction the connection had open.
Kill ==
    /\ pc \in Running \cup {"rebuild"}
    /\ pc' = "killed"
    /\ result' = Killed
    /\ conn' = committed
    /\ user_cache' = EmptyCache
    /\ group_cache' = {}
    /\ queue' = <<>>
    /\ seen' = {}
    /\ cur' = NoCur
    /\ ref' = <<>>
    /\ quiet' = FALSE
    /\ UNCHANGED <<remoteVars, runs, slice_idx, committed, fts, wrote, fetched, start_empty,
                   httpVars, runVars, otherVars>>

\* A new process imports the module: empty caches.
Restart ==
    /\ pc = "killed"
    /\ pc' = "idle"
    /\ slice_idx' = 0
    /\ result' = NoResult
    /\ wrote' = EmptyCache
    /\ fetched' = EmptyCache
    /\ start_empty' = FALSE
    /\ UNCHANGED <<remoteVars, runs, user_cache, group_cache, queue, seen, cur,
                   storeVars, ref, quiet, httpVars, runVars, otherVars>>

(***************************************************************************)
(* The remote changes while the process runs or rests.                     *)
(***************************************************************************)
Changed ==
    /\ changes < MaxChanges
    /\ changes' = changes + 1
    /\ quiet' = FALSE
    /\ ref' = <<>>
    /\ UNCHANGED <<slot, procVars, storeVars, wrote, fetched, start_empty, httpVars, runVars, otherVars>>

SetAssignee(id, a) ==
    /\ a # remote[id].assignee_id
    /\ remote' = [remote EXCEPT ![id].assignee_id = a]
    /\ UNCHANGED group_down
    /\ Changed

EditSubject(id, s) ==
    /\ s # remote[id].subject
    /\ remote' = [remote EXCEPT ![id].subject = s, ![id].updated_at = @ + 1]
    /\ UNCHANGED group_down
    /\ Changed

AddComment(id, c) ==
    /\ Len(remote[id].comments) < MaxComments
    /\ remote' = [remote EXCEPT ![id].comments = Append(@, c)]
    /\ UNCHANGED group_down
    /\ Changed

DeleteComment(id, i) ==
    /\ i \in 1..Len(remote[id].comments)
    /\ remote' = [remote EXCEPT ![id].comments = RemoveAt(@, i)]
    /\ UNCHANGED group_down
    /\ Changed

ApplyMacro(id, title) ==
    /\ Len(remote[id].macros) < MaxMacros
    /\ remote' = [remote EXCEPT ![id].macros = Append(@, title)]
    /\ UNCHANGED group_down
    /\ Changed

GroupOutage ==
    /\ group_down' = ~group_down
    /\ UNCHANGED remote
    /\ Changed

Next ==
    \/ StartIngest
    \/ StartSlice
    \/ NextResult
    \/ EndSlice
    \/ MissingCredentials
    \/ GetTicket
    \/ GetUsers
    \/ GetComments
    \/ GetAudits
    \/ GetGroupsAndWrite
    \/ \E e \in GetJsonErrors : PrimaryCallFails(e)
    \/ \E k \in 1..2, e \in GetUserErrors : UserLookupFails(k, e)
    \/ \E k \in 1..MaxComments, e \in GetUserErrors : AuthorLookupFails(k, e)
    \/ EndLoop
    \/ Rebuild
    \/ Kill
    \/ Restart
    \/ \E id \in TicketIds, a \in {NoId, Ids.agent, Ids.bot} : SetAssignee(id, a)
    \/ \E id \in TicketIds, s \in Subjects : EditSubject(id, s)
    \/ \E id \in TicketIds, c \in NewComments : AddComment(id, c)
    \/ \E id \in TicketIds, i \in 1..MaxComments : DeleteComment(id, i)
    \/ \E id \in TicketIds :
           \E title \in MacroEventTitles(Len(remote[id].macros) + 1) : ApplyMacro(id, title)
    \/ GroupOutage

Spec == Init /\ [][Next]_vars

\* get_json alone, ingest() at rest.
HttpInit ==
    /\ GjInit /\ RemoteInit /\ ProcInit /\ OtherIdle
    /\ creds = Credentials
    /\ slot = [id \in TicketIds |-> 1]
HttpNext ==
    \/ GjCall /\ UNCHANGED ingestVars
    \/ \E r \in Responses : GjAttempt(r) /\ UNCHANGED ingestVars
    \/ GjGiveUp /\ UNCHANGED ingestVars
SpecHttp == HttpInit /\ [][HttpNext]_vars

\* The slice loop alone. The loop runs on: each iteration is a step of the one
\* thread of ingest().
restOfSlices ==
    <<httpVars, remoteVars, procVars, storeVars, histVars, runVars, groupVars, concVars, fnVars,
      lookVars>>
SlicesInit ==
    /\ GjInit /\ RemoteInit /\ ProcInit /\ SlInit /\ GroupIdle /\ ConcIdle /\ FnIdle /\ LookIdle
    /\ creds = Credentials
    /\ slot = [id \in TicketIds |-> 1]
SlicesNext ==
    \/ SlSlice /\ UNCHANGED restOfSlices
    \/ SlHeartbeat /\ UNCHANGED restOfSlices
    \/ SlExit /\ UNCHANGED restOfSlices
SpecSlices == SlicesInit /\ [][SlicesNext]_vars /\ WF_vars(SlicesNext)

\* Two runs at once, the remote's tickets changing meanwhile. The runs' steps leave
\* the single-run variables other than the committed store alone.
restOfConc ==
    <<httpVars, procVars, conn, fts, histVars, runVars, sliceVars, groupVars, remoteVars,
      fnVars, lookVars>>
ConcInit ==
    /\ GjInit /\ RemoteInit /\ ProcInit /\ OtherIdle
    /\ creds = Credentials
    /\ slot = [id \in TicketIds |-> 1]
ConcNext ==
    \/ \E r \in Runs : CStart(r) /\ UNCHANGED restOfConc
    \/ \E r \in Runs : CFetch(r) /\ UNCHANGED restOfConc
    \/ \E r \in Runs : CWrite(r) /\ UNCHANGED restOfConc
    \/ \E r \in Runs : CLocked(r) /\ UNCHANGED restOfConc
    \/ \E r \in Runs : CFinish(r) /\ UNCHANGED restOfConc
    \/ \E id \in TicketIds, sub \in Subjects : EditSubject(id, sub)
    \/ \E id \in TicketIds, i \in 1..MaxComments : DeleteComment(id, i)
SpecConc == ConcInit /\ [][ConcNext]_vars

\* A call of a pure function alone.
restOfFn ==
    <<httpVars, remoteVars, procVars, storeVars, histVars, runVars, sliceVars, groupVars,
      concVars, lookVars>>
PureInit ==
    /\ GjInit /\ RemoteInit /\ ProcInit /\ SliceIdle /\ GroupIdle /\ ConcIdle /\ LookIdle
    /\ creds = Credentials
    /\ slot = [id \in TicketIds |-> 1]

\* score_ticket alone.
ScoreSpecInit == PureInit /\ ScoreInit
ScoreNext == ScoreCall /\ UNCHANGED restOfFn
SpecScore == ScoreSpecInit /\ [][ScoreNext]_vars

\* infer_bpo_from_groups alone.
BpoSpecInit == PureInit /\ BpoInit
BpoNext == BpoCall /\ UNCHANGED restOfFn
SpecBpo == BpoSpecInit /\ [][BpoNext]_vars

\* match_keywords alone.
KeywordsSpecInit == PureInit /\ KeywordsInit
KeywordsNext == KeywordsCall /\ UNCHANGED restOfFn
SpecKeywords == KeywordsSpecInit /\ [][KeywordsNext]_vars

\* The lookups of a process alone.
restOfLookups ==
    <<httpVars, remote, slot, group_down, pc, runs, group_cache, slice_idx, queue, seen, cur,
      result, storeVars, histVars, runVars, sliceVars, groupVars, concVars, fnVars>>
LookupsInit ==
    /\ GjInit /\ RemoteInit /\ ProcInit /\ SliceIdle /\ GroupIdle /\ ConcIdle /\ FnIdle /\ LookInit
    /\ creds = Credentials
    /\ slot = [id \in TicketIds |-> 1]
LookupsNext ==
    \/ \E id \in LookUserIds \cup {Ids.sys}, passing \in {NoFailure} \cup GetJsonErrors :
           GetUserCall(id, passing) /\ UNCHANGED restOfLookups
    \/ \E gid \in LookGroupIds, passing \in {NoFailure} \cup GetJsonErrors :
           GetGroupCall(gid, passing) /\ UNCHANGED restOfLookups
    \/ IngestCalled /\ UNCHANGED restOfLookups
    \/ \E kind \in {"users", "groups"}, id \in LookUserIds \cup LookGroupIds, state \in RecordStates :
           RecordChanges(kind, id, state) /\ UNCHANGED restOfLookups
SpecLookups == LookupsInit /\ [][LookupsNext]_vars

\* get_user_group_names alone.
restOfGroups ==
    <<httpVars, remoteVars, procVars, storeVars, histVars, runVars, sliceVars, concVars, fnVars,
      lookVars>>
GroupsInit ==
    /\ GjInit /\ RemoteInit /\ ProcInit /\ SliceIdle /\ GroupInit /\ ConcIdle /\ FnIdle /\ LookIdle
    /\ creds = Credentials
    /\ slot = [id \in TicketIds |-> 1]
GroupsNext == GroupNamesCall /\ UNCHANGED restOfGroups
SpecGroups == GroupsInit /\ [][GroupsNext]_vars

(***************************************************************************)
(* Properties of get_json, checked under SpecHttp                          *)
(***************************************************************************)
Finished == gj_pc \in {"returned", "raised"}
All429(n) == \A i \in 1..n : hist[i].status = 429
SleepsBounded == \A i \in 1..Len(sleeps) : sleeps[i] >= 0 /\ sleeps[i] <= 20

\* C6 (as claimed): when the remote answers 429 n times (n <= 3) and then 200,
\* get_json sleeps exactly n times, each sleep at most 20 seconds whatever
\* Retry-After says, then returns the parsed result, and never raises.
C6_RateLimitBackoff ==
    /\ (Len(hist) <= 3 /\ All429(Len(hist)))
          => /\ gj_pc # "raised"
             /\ Len(sleeps) = Len(hist)
             /\ SleepsBounded
    /\ (Len(hist) >= 1 /\ Len(hist) <= 4 /\ All429(Len(hist) - 1)
        /\ hist[Len(hist)].status = 200)
          => /\ gj_pc = "returned"
             /\ outcome = "ok"
             /\ Len(sleeps) = Len(hist) - 1
             /\ SleepsBounded

\* C7 (as claimed): get_json issues at most 5 requests and ends in exactly one of:
\* a parsed result on the first 2xx, an immediate HTTP error, or a terminal error
\* once 5 consecutive transient responses (429 or 5xx) have been received.
C7_RetryCeiling ==
    /\ Len(hist) <= 5
    /\ tries = Len(hist) \/ gj_pc = "idle"
    /\ Finished =>
          \/ /\ outcome = "ok"
             /\ hist[Len(hist)].status \in 200..299
             /\ \A i \in 1..(Len(hist) - 1) : hist[i].status \notin 200..299
          \/ /\ outcome = "HTTPError"
             /\ hist[Len(hist)].status \in {400, 401, 403, 404, 422}
          \/ /\ outcome = "RuntimeError"
             /\ Len(hist) = 5
             /\ \A i \in 1..5 : hist[i].status = 429 \/ hist[i].status \in 500..599

\* C8: a response with status 400, 401, 403, 404 or 422 is the last one: get_json
\* raises the HTTP error on that attempt, having slept only for the earlier
\* responses, and issues no further request, whatever the attempt's number.
C8_PermanentFailFast ==
    \A i \in 1..Len(hist) :
        hist[i].status \in {400, 401, 403, 404, 422}
            => /\ i = Len(hist)
               /\ tries = i
               /\ gj_pc = "raised"
               /\ outcome = "HTTPError"
               /\ Len(sleeps) = i - 1

\* C8's case: the permanent error arrives on the fifth attempt.
C8_Witness ==
    /\ Len(hist) = 5
    /\ hist[5].status = 403
    /\ gj_pc = "raised"
    /\ Len(sleeps) = 4

(***************************************************************************)
(* Properties of ingest(), checked under Spec                              *)
(***************************************************************************)
\* ingest() has a connection: it is running, or it ended in this process.
Alive == pc \in Running \cup {"rebuild", "done", "aborted"}

TicketRowsOf(store, id) == {r \in store.tickets : r.id = id}
CommentRowsOf(store, id) == {r \in store.comments : r.ticket_id = id}
AuditRowsOf(store, id) == {r \in store.audits : r.ticket_id = id}

\* The rows this run upserted for ticket id are in the store, as upserted.
HoldsWritten(store, id) ==
    /\ wrote[id].ticket \in store.tickets
    /\ \A i \in 1..Len(wrote[id].public_comments) :
          \E r \in store.comments :
              CommentRow(r.rowid, wrote[id].public_comments[i]) = r
    /\ wrote[id].macro_titles # <<>> =>
          [ticket_id |-> id, created_at |-> wrote[id].ticket.updated_at,
           macro_titles |-> wrote[id].macro_titles] \in store.audits

\* C1: once a run of ingest() has completed with the remote unchanged since it
\* started, later runs in the same process over the same window, the remote still
\* unchanged, leave tickets, comments and audits exactly as that run left them:
\* the same rows, the same values.
C1_Idempotent ==
    ref # <<>> => conn = ref[1] /\ committed = ref[1]

\* C1's case: a second run has written a ticket again and completed.
C1_Witness ==
    /\ ref # <<>>
    /\ runs = 2
    /\ pc = "done"
    /\ wrote # EmptyCache
    /\ \E r \in ref[1].comments : r.idx = 1

\* C2: the tickets table holds at most one row per ticket id, and the row of a
\* ticket upserted in this run has exactly the values of the last upsert_ticket
\* call for that id.
C2_UpsertOverwrite ==
    Alive =>
        /\ \A id \in TicketIds : Cardinality(TicketRowsOf(conn, id)) <= 1
        /\ \A id \in TicketIds : Cardinality(TicketRowsOf(committed, id)) <= 1
        /\ \A id \in DOMAIN wrote : TicketRowsOf(conn, id) = {wrote[id].ticket}

\* C2's case: a ticket stored with subject A has been upserted with subject B.
C2_Witness ==
    /\ Alive
    /\ \E id \in DOMAIN wrote :
          /\ wrote[id].ticket.subject = "B"
          /\ \E r \in committed.tickets : r.id = id /\ r.subject = "A"
          /\ \E r \in conn.tickets : r.id = id /\ r.subject = "B"

\* C3 (as claimed): the stored comment rows of a ticket written in this run,
\* ordered by idx, are exactly the sequence the comments call returned: same
\* length, same order, same content.
C3_CommentOrdering ==
    Alive =>
        \A id \in DOMAIN wrote :
            /\ Cardinality(CommentRowsOf(conn, id)) = Len(wrote[id].comments)
            /\ \A i \in 1..Len(wrote[id].comments) :
                  \E r \in CommentRowsOf(conn, id) :
                      /\ r.idx = i - 1
                      /\ r.author_id = wrote[id].comments[i].author_id
                      /\ (r.public = 1) = wrote[id].comments[i].public
                      /\ r.body = wrote[id].comments[i].body

\* C4 (as claimed): a ticket the run fetched without an assignee is not in the
\* store, whatever the store held before the run.
C4_UnassignedAbsent ==
    Alive =>
        \A id \in DOMAIN fetched :
            fetched[id].assignee_id = NoId => TicketRowsOf(conn, id) = {}

\* C4 (amended): the run writes nothing for a ticket it fetched without an
\* assignee: the ticket's rows are those the store held when the run started, so
\* the ticket is absent unless an earlier run stored it.
C4_UnassignedNotWritten ==
    pc \in Running =>
        \A id \in DOMAIN fetched :
            fetched[id].assignee_id = NoId
                => /\ id \notin DOMAIN wrote
                   /\ TicketRowsOf(conn, id) = TicketRowsOf(committed, id)
                   /\ CommentRowsOf(conn, id) = CommentRowsOf(committed, id)
                   /\ AuditRowsOf(conn, id) = AuditRowsOf(committed, id)

\* C4's case: the run has skipped an unassigned ticket that an earlier run stored.
C4_Witness ==
    /\ pc \in Running
    /\ \E id \in DOMAIN fetched :
          /\ fetched[id].assignee_id = NoId
          /\ fetched[id].finished
          /\ TicketRowsOf(committed, id) # {}

\* The email the remote holds for a user id, lowercased; empty for an id the
\* remote has no user for.
EmailOf(user_id) == IF user_id \in Directory THEN Lower(RemoteUser(user_id).email) ELSE ""

C9_AbortKeepsWork ==
    pc = "aborted" =>
        /\ result \in GetJsonErrors
        /\ committed = conn
        /\ \A id \in DOMAIN wrote : HoldsWritten(committed, id)

\* C9's case: a 404 on a primary resource aborted a run that had written a ticket
\* with its comments and an audit row.
C9_Witness ==
    /\ pc = "aborted"
    /\ result = HTTPError(404)
    /\ \E id \in DOMAIN wrote :
          /\ wrote[id].macro_titles # <<>>
          /\ Len(wrote[id].public_comments) = 2
          /\ TicketRowsOf(committed, id) # {}

\* C10 (as claimed): when the process is killed during a run, every row the run
\* had upserted is in the committed store.
C10_KillDurability ==
    pc = "killed" => \A id \in DOMAIN wrote : HoldsWritten(committed, id)

(***************************************************************************)
(* Properties of the lookups and of the configuration, checked under Spec  *)
(***************************************************************************)
\* C11 (as claimed): no failure of a user lookup, whatever its status, ends the run.
C11_UserLookupNeverAborts == raised_by # "user"

\* C11 (amended): a user lookup the remote answers with 400 or 404 gives the stub
\* and the run goes on; a run a user lookup did end was ended by another failure
\* (401, 403, 422, or the retries exhausted), raised as get_json raised it.
C11_UserLookupSwallowed ==
    /\ raised_by = "user" =>
          /\ pc = "aborted"
          /\ result.type \in {"HTTPError", "RuntimeError"}
          /\ ~(result.type = "HTTPError" /\ result.status \in {400, 404})
    /\ \A id \in DOMAIN user_cache :
          id \notin Directory => user_cache[id] = [id |-> id, email |-> "", name |-> "Unknown"]

\* C11's case: a run completed after the lookup of a comment author the remote
\* answers 404 for, and wrote the ticket with that comment.
C11_Witness ==
    /\ pc = "done"
    /\ Ids.gone \in DOMAIN user_cache
    /\ \E id \in DOMAIN wrote :
          \E i \in 1..Len(wrote[id].public_comments) :
              /\ wrote[id].public_comments[i].author_id = Ids.gone
              /\ wrote[id].public_comments[i].author_name = "Unknown"

\* C12: get_user with a null, zero or negative id returns the stub with no remote
\* request and leaves the cache as it was; with a positive id the remote answers
\* 400 or 404 for, it returns the same stub and does not raise. The comment rows
\* the run stored for such authors carry the stub's email and name.
C12_StubUsers ==
    /\ \A id \in {NoId, Ids.sys} :
          /\ get_user(user_cache, id) = [id |-> id, email |-> "", name |-> "Unknown"]
          /\ ~NeedsRemote(user_cache, id)
          /\ CacheAfter(user_cache, id) = user_cache
          /\ id \notin DOMAIN user_cache
    /\ get_user(user_cache, Ids.gone) = [id |-> Ids.gone, email |-> "", name |-> "Unknown"]
    /\ \A r \in conn.comments :
          r.author_id \in {NoId, Ids.sys, Ids.gone}
              => r.author_email = "" /\ r.author_name = "Unknown"

\* C12's case: the run has stored a comment of the system author (id -1) after
\* looking up other users through the cache.
C12_Witness ==
    /\ pc \in Running
    /\ user_cache # EmptyCache
    /\ \E r \in conn.comments : r.author_id = Ids.sys /\ r.author_name = "Unknown"

FetchedOnce ==
    /\ pc = "get_ticket" => cur.tid \notin DOMAIN fetched
    /\ pc \in {"get_ticket", "get_users", "get_comments", "get_audits", "get_groups"}
          => cur.tid \in seen
    /\ Alive => DOMAIN fetched \subseteq seen
    /\ DOMAIN wrote \subseteq DOMAIN fetched

\* ingest() takes an id it has seen from the search results.
SkipsRepeated ==
    (/\ pc = "results" /\ queue # <<>> /\ Head(queue) \in seen
     /\ queue' = Tail(queue) /\ pc' \notin {"aborted", "killed"})
        => /\ pc' = "results"
           /\ seen' = seen
           /\ conn' = conn /\ committed' = committed
           /\ user_cache' = user_cache /\ group_cache' = group_cache
           /\ fetched' = fetched /\ wrote' = wrote

\* C15: within one run, whatever ids the search yields and in whichever slices, a
\* ticket's detail is fetched and the ticket processed at most once per id; a
\* repeated id is skipped with no remote call and no write.
C15_AtMostOnce == []FetchedOnce /\ [][SkipsRepeated]_vars

\* C15's case: the search yields again the id of a ticket the run has already
\* fetched and written.
C15_Witness ==
    /\ pc = "results"
    /\ queue # <<>>
    /\ Head(queue) \in DOMAIN wrote
    /\ Head(queue) \in seen

TicketKeys(store) == {r.id : r \in store.tickets}
CommentKeys(store) == {<<r.ticket_id, r.idx>> : r \in store.comments}
AuditKeys(store) == {<<r.ticket_id, r.created_at>> : r \in store.audits}

\* No step of ingest() or rebuild_fts() takes a key out of the committed store,
\* nor out of the view of a run's connection while the run goes on.
KeysKept ==
    /\ TicketKeys(committed) \subseteq TicketKeys(committed')
    /\ CommentKeys(committed) \subseteq CommentKeys(committed')
    /\ AuditKeys(committed) \subseteq AuditKeys(committed')
    /\ (pc \in Running /\ pc' \in Running \cup {"rebuild", "aborted"}) =>
          /\ TicketKeys(conn) \subseteq TicketKeys(conn')
          /\ CommentKeys(conn) \subseteq CommentKeys(conn')
          /\ AuditKeys(conn) \subseteq AuditKeys(conn')

\* C17: across any sequence of ingest and rebuild_fts operations the ticket ids,
\* the (ticket_id, idx) comment keys and the (ticket_id, created_at) audit keys of
\* the store never lose an element.
C17_StoreOnlyGrows == [][KeysKept]_vars

\* C17's case: a second run has written a ticket again after its thread shrank,
\* and the store still holds the comment key only the first run wrote.
C17_Witness ==
    /\ pc = "done"
    /\ runs = 2
    /\ \E id \in DOMAIN wrote :
          /\ Len(wrote[id].comments) = 1
          /\ <<id, 1>> \in CommentKeys(committed)
          /\ id \in TicketKeys(committed)

\* C18: rebuild_fts() runs once in a run, after the last slice and after the run's
\* upserts are committed; the summary is returned after it, the index then holding
\* the committed comments; a run an error ended has run no rebuild and returned
\* no summary.
C18_RebuildAfterCompletion ==
    /\ rebuilds <= 1
    /\ pc \in Running => rebuilds = 0 /\ result # Summary
    /\ pc = "rebuild" =>
          /\ rebuilds = 0
          /\ result # Summary
          /\ slice_idx = NumSlices
          /\ committed = conn
          /\ \A id \in DOMAIN wrote : HoldsWritten(committed, id)
    /\ pc = "done" =>
          /\ rebuilds = 1
          /\ result = Summary
          /\ fts = {[rowid |-> c.rowid, body |-> c.body] : c \in committed.comments}
    /\ result = Summary => pc = "done"
    /\ pc \in {"aborted", "exited"} => rebuilds = 0 /\ result # Summary

\* C18's case: a run that wrote a ticket has completed, the index rebuilt once.
C18_Witness ==
    /\ pc = "done"
    /\ rebuilds = 1
    /\ wrote # EmptyCache
    /\ fts # {}
    /\ result = Summary

(***************************************************************************)
(* Properties of the slice loop, checked under SpecSlices                  *)
(***************************************************************************)
SlicesChained ==
    /\ windows # <<>> => windows[1].s = start
    /\ \A i \in 1..Len(windows) :
          /\ windows[i].s < windows[i].e
          /\ windows[i].e - windows[i].s <= 6
          /\ windows[i].e <= now
          /\ i < Len(windows) => windows[i].e = windows[i + 1].s
    /\ cursor = IF windows = <<>> THEN start ELSE windows[Len(windows)].e
    /\ sl_pc = "done" => windows # <<>> /\ windows[Len(windows)].e = now

\* C16: for every lookback of at least one day, the sub-windows searched start at
\* now - lookback, each ends where the next begins, each is at most 6 hours long,
\* they are searched in increasing time order, the last ends at now, and the
\* slice loop terminates.
C16_SlicePartition == []SlicesChained /\ <>(sl_pc = "done")

\* C16's case: a lookback that is not a multiple of 6 hours has been covered, the
\* last sub-window shorter than the others.
C16_Witness ==
    /\ sl_pc = "done"
    /\ Len(windows) = 5
    /\ windows[5].e - windows[5].s < 6
    /\ windows[1].s = now - 27

(***************************************************************************)
(* Properties of get_user_group_names, checked under SpecGroups            *)
(***************************************************************************)
\* The group is named in a membership and its record is at hand: cached by an
\* earlier fetch that succeeded, or fetched now.
GroupFetched(gid) == gid # NoId /\ (gid \in g_cache \/ gid \notin g_down)

\* C13: the call returns, whatever groups fail to fetch, and the list it returns is
\* exactly the non-empty names of the memberships' groups whose record was
\* fetched, in membership order; a group whose fetch failed is left out and is not
\* cached.
C13_GroupLookupBestEffort ==
    g_pc = "returned" =>
        LET kept == SelectSeq(g_gids, LAMBDA gid : GroupFetched(gid) /\ GroupNameFor(gid) # "")
        IN  /\ g_names = [i \in 1..Len(kept) |-> GroupNameFor(kept[i])]
            /\ g_cache_after =
                  g_cache \cup {g_gids[i] : i \in {j \in 1..Len(g_gids) : GroupFetched(g_gids[j])}}
            /\ g_cache_after \cap (g_down \ g_cache) = {}

\* C13's case: of three memberships the first group's fetch fails, the second has
\* no name and the third is returned.
C13_Witness ==
    /\ g_pc = "returned"
    /\ g_gids = <<Ids.group, 8, 9>>
    /\ g_down = {Ids.group}
    /\ g_cache = {}
    /\ g_names = <<"Support">>

(***************************************************************************)
(* Properties of two runs at once, checked under SpecConc                  *)
(***************************************************************************)
BothEnded == \A r \in Runs : c_pc[r] \in {"done", "failed"}

\* C20 (as claimed): the committed store has at most one row per ticket id and per
\* (ticket_id, idx), and once both runs have ended each ticket a run wrote has the
\* ticket row and exactly the comment rows of the run that wrote it last.
C20_LastWriteWins ==
    /\ \A id \in TicketIds : Cardinality(TicketRowsOf(committed, id)) <= 1
    /\ \A r1, r2 \in committed.comments :
          (r1.ticket_id = r2.ticket_id /\ r1.idx = r2.idx) => r1 = r2
    /\ BothEnded =>
          \A id \in DOMAIN last :
              /\ TicketRowsOf(committed, id) = {last[id].ticket}
              /\ {[r EXCEPT !.rowid = 0] : r \in CommentRowsOf(committed, id)}
                    = {CommentRow(0, last[id].public_comments[i]) :
                          i \in 1..Len(last[id].public_comments)}

(***************************************************************************)
(* Properties of score_ticket, checked under SpecScore                     *)
(***************************************************************************)
\* The rules in their fixed order, and the label of each.
RuleOrder ==
    <<"low_csat", "sensitive", "multi_agents", "vip_complaint", "reopened", "macro_mismatch",
      "long_thread", "multi_topic", "excellent_personalization", "empathy",
      "easy_issue_penalty">>
RuleLabel ==
    [low_csat |-> "Low CSAT", sensitive |-> "Sensitive keyword",
     multi_agents |-> "Multiple authors", vip_complaint |-> "VIP complaint",
     reopened |-> "Reopened", macro_mismatch |-> "Macro-topic mismatch",
     long_thread |-> "Long thread", multi_topic |-> "Multi-topic",
     excellent_personalization |-> "Personalized & positive", empathy |-> "Empathy",
     easy_issue_penalty |-> "Easy tech-only"]

PublicCount(comments) == Cardinality({i \in 1..Len(comments) : comments[i].public})
PublicEmails(comments) ==
    {e \in {comments[i].author_email : i \in 1..Len(comments)} :
        e # "" /\ \E i \in 1..Len(comments) : comments[i].public /\ comments[i].author_email = e}

\* The condition of a rule on the arguments a.
RuleHolds(rule, a) ==
    CASE rule = "low_csat" -> a.t.csat \in {<<1>>, <<2>>}
      [] rule = "sensitive" -> "sensitive_hit" \in a.cfg
      [] rule = "multi_agents" -> Cardinality(PublicEmails(a.comments)) >= 3
      [] rule = "vip_complaint" -> a.t.payer_tier \in {"VIP", "Whale"} /\ "is_complaint" \in a.cfg
      [] rule = "reopened" -> a.t.reopened_recently
      [] rule = "macro_mismatch" -> "macro_mismatch" \in a.cfg
      [] rule = "long_thread" -> PublicCount(a.comments) >= 5
      [] rule = "multi_topic" -> "multi_topic" \in a.cfg
      [] rule = "excellent_personalization" -> a.t.csat = <<5>> /\ "personalization" \in a.cfg
      [] rule = "empathy" -> "empathy" \in a.cfg
      [] OTHER -> "easy_only" \in a.cfg /\ "sensitive_hit" \notin a.cfg
FiredRules(a) == SelectSeq(RuleOrder, LAMBDA rule : RuleHolds(rule, a))

RECURSIVE WeightSum(_, _)
WeightSum(weights, rules) ==
    IF rules = <<>> THEN 0 ELSE weights[Head(rules)] + WeightSum(weights, Tail(rules))

\* C21: the score score_ticket returns is the sum of the weights of exactly the
\* rules whose condition holds (zero when none does) and the reasons are the labels
\* of those rules in the fixed rule order; with the default weights a ticket on
\* which only low_csat holds scores (15, ["Low CSAT"]), and one on which only
\* low_csat and the easy-issue penalty hold scores (-5, ["Low CSAT", "Easy tech-only"]).
C21_Scoring ==
    fn_pc = "returned" =>
        LET fired == FiredRules(fn_args)
        IN  /\ fn_ret[1] = WeightSum(fn_args.weights, fired)
            /\ fn_ret[2] = [i \in 1..Len(fired) |-> RuleLabel[fired[i]]]
            /\ (fired = <<>>) => fn_ret = <<0, <<>>>>
            /\ (fn_args.weights = DefaultWeights /\ fired = <<"low_csat">>)
                  => fn_ret = <<15, <<"Low CSAT">>>>
            /\ (fn_args.weights = DefaultWeights /\ fired = <<"low_csat", "easy_issue_penalty">>)
                  => fn_ret = <<0 - 5, <<"Low CSAT", "Easy tech-only">>>>

\* C21's case: csat 1 with the easy-only signal under the default weights, and a
\* thread of five comments of which four are public.
C21_Witness ==
    /\ fn_pc = "returned"
    /\ fn_args.weights = DefaultWeights
    /\ fn_args.t.csat = <<1>>
    /\ fn_args.cfg = {"easy_only"}
    /\ Len(fn_args.comments) = 5
    /\ PublicCount(fn_args.comments) = 4
    /\ fn_ret = <<0 - 5, <<"Low CSAT", "Easy tech-only">>>>

\* C27: the reasons score_ticket returns never hold both "Low CSAT" and
\* "Personalized & positive", never both "Sensitive keyword" and "Easy tech-only",
\* and never the same label twice.
C27_ExclusiveReasons ==
    fn_pc = "returned" =>
        LET reasons == fn_ret[2]
            labels == {reasons[i] : i \in 1..Len(reasons)}
        IN  /\ ~({"Low CSAT", "Personalized & positive"} \subseteq labels)
            /\ ~({"Sensitive keyword", "Easy tech-only"} \subseteq labels)
            /\ Cardinality(labels) = Len(reasons)

\* C27's case: a sensitive ticket whose tags are all easy ones, with every other
\* signal set.
C27_Witness ==
    /\ fn_pc = "returned"
    /\ fn_args.cfg = Signals
    /\ fn_args.t.csat = <<5>>
    /\ fn_ret[2][1] = "Sensitive keyword"
    /\ \E i \in 1..Len(fn_ret[2]) : fn_ret[2][i] = "Personalized & positive"
    /\ fn_ret[2][Len(fn_ret[2])] = "Empathy"

(***************************************************************************)
(* Properties of infer_bpo_from_groups, checked under SpecBpo              *)
(***************************************************************************)
\* The partner rules in their declared order: the label and its name fragments.
BpoRules ==
    <<[label |-> "ICX", fragments |-> {<<"i", "c", "x">>}],
      [label |-> "TG", fragments |-> {<<"t", "g">>, <<"t", "e", "l", "u", "s">>}],
      [label |-> "CNX",
       fragments |-> {<<"c", "n", "x">>, <<"c", "o", "n", "c", "e", "n", "t", "r", "i", "x">>}]>>
\* The lowercased names joined by single spaces, built from the right.
RECURSIVE JoinedLower(_)
JoinedLower(names) ==
    IF names = <<>> THEN <<>>
    ELSE IF Len(names) = 1 THEN LowerText(names[1])
    ELSE LowerText(Head(names)) \o <<" ">> \o JoinedLower(Tail(names))
\* A window of the text equals the fragment.
FragmentAt(text, w, k) == \A m \in 1..Len(w) : k + m <= Len(text) /\ text[k + m] = w[m]
RuleMatches(rule, names) ==
    \E w \in rule.fragments : \E k \in 0..Len(JoinedLower(names)) :
        FragmentAt(JoinedLower(names), w, k)

\* C22: infer_bpo_from_groups returns the label of the first rule, in the order ICX,
\* TG, CNX, of which a name fragment occurs in the lowercased joined list of group
\* names, and null when no fragment occurs; ["ICX Tier 2"] gives ICX and
\* ["Unrelated Team"] gives null.
C22_BpoFirstMatch ==
    fn_pc = "returned" =>
        LET names == fn_args.group_names
            matching == {k \in 1..3 : RuleMatches(BpoRules[k], names)}
        IN  /\ matching = {} => fn_ret = <<NoBpo>>
            /\ matching # {} =>
                  fn_ret = <<BpoRules[CHOOSE k \in matching : \A m \in matching : k <= m].label>>
            /\ names = <<Spell("ICX Tier 2")>> => fn_ret = <<"ICX">>
            /\ names = <<<<"U", "n", "r", "e", "l", "a", "t", "e", "d", " ", "T", "e", "a", "m">>>>
                  => fn_ret = <<NoBpo>>

\* C22's case: a list naming a TG group before an ICX group is classified ICX.
C22_Witness ==
    /\ fn_pc = "returned"
    /\ fn_args.group_names = <<<<"T", "G", " ", "D", "a", "y">>, Spell("ICX Tier 2")>>
    /\ fn_ret = <<"ICX">>

(***************************************************************************)
(* Properties of match_keywords, checked under SpecKeywords                *)
(***************************************************************************)
\* The words of a text: its maximal runs of characters that are not whitespace.
RECURSIVE WordsOf(_, _)
WordsOf(text, word) ==
    IF text = <<>> THEN IF word = <<>> THEN <<>> ELSE <<word>>
    ELSE IF Head(text) \in {" ", "\t", "\n"}
         THEN (IF word = <<>> THEN <<>> ELSE <<word>>) \o WordsOf(Tail(text), <<>>)
         ELSE WordsOf(Tail(text), Append(word, Head(text)))
\* The whitespace-normalized lowercased text: its words, lowercased, one space apart.
NormalForm(text) == JoinedLower(WordsOf(text, <<>>))
IsSubstring(w, text) == \E k \in 0..Len(text) : FragmentAt(text, w, k)

\* C23: for a non-empty term list, match_keywords in mode "all" is true exactly when
\* every lowercased term is a substring of the whitespace-normalized lowercased text,
\* and in mode "any" exactly when at least one is; on "the game keeps crashing on
\* connect", [crash, connect] in mode all is true and [crash, refund] is false.
C23_KeywordFilter ==
    (fn_pc = "returned" /\ fn_args.include # <<>>) =>
        LET terms == fn_args.include
            hits == {k \in 1..Len(terms) : IsSubstring(LowerText(terms[k]), NormalForm(fn_args.text))}
        IN  /\ fn_args.mode = "all" => (fn_ret[1] <=> hits = 1..Len(terms))
            /\ fn_args.mode = "any" => (fn_ret[1] <=> hits # {})
            /\ (fn_args.mode = "all" /\ fn_args.text = CrashText)
                  => /\ terms = <<<<"c", "r", "a", "s", "h">>, <<"c", "o", "n", "n", "e", "c", "t">>>> => fn_ret[1]
                     /\ terms = <<<<"c", "r", "a", "s", "h">>, <<"r", "e", "f", "u", "n", "d">>>> => ~fn_ret[1]

\* C23's case: a text in capitals between runs of whitespace, matched by its
\* lowercase term in mode all together with the empty term.
C23_Witness ==
    /\ fn_pc = "returned"
    /\ fn_args.mode = "all"
    /\ fn_args.text = <<"\t", "B", " ">>
    /\ fn_args.include = <<<<"B">>, <<>>>>
    /\ fn_ret = <<TRUE>>

(***************************************************************************)
(* Progress reports, checked under SpecSlices                              *)
(***************************************************************************)
\* C28 (as claimed): the reported steps never decrease, each lies between 0 and the
\* total, the total is the same in every report, the first report has step 0, a
\* run that completes ends with a report whose step is the total, and the total is
\* the number of sub-windows the run processes.
C28_ProgressReports ==
    /\ \A i \in 1..Len(reports) :
          /\ 0 <= reports[i].step /\ reports[i].step <= reports[i].total
          /\ reports[i].total = reports[1].total
          /\ i < Len(reports) => reports[i].step <= reports[i + 1].step
    /\ sl_pc # "idle" => reports[1].step = 0
    /\ sl_pc = "done" =>
          /\ reports[Len(reports)].step = reports[Len(reports)].total
          /\ reports[1].total = Len(windows)

(***************************************************************************)
(* Properties of the per-ticket pipeline, checked under Spec               *)
(***************************************************************************)
\* A remote call of the ticket being processed raises: the step leaves ingest()
\* from one of the stages of lines 265-328.
FailsOnTicket ==
    /\ pc \in {"get_ticket", "get_users", "get_comments", "get_audits", "get_groups"}
    /\ pc' = "aborted"
\* The run has written nothing for the ticket and the ticket's rows are those of
\* the database file as the run found it.
NothingWrittenFor(id) ==
    /\ id \notin DOMAIN wrote'
    /\ TicketRowsOf(conn, id) = TicketRowsOf(committed, id)
    /\ CommentRowsOf(conn, id) = CommentRowsOf(committed, id)
    /\ AuditRowsOf(conn, id) = AuditRowsOf(committed, id)
    /\ TicketRowsOf(committed', id) = TicketRowsOf(committed, id)
    /\ CommentRowsOf(committed', id) = CommentRowsOf(committed, id)
    /\ AuditRowsOf(committed', id) = AuditRowsOf(committed, id)
\* Every ticket the run has written is in its connection's view with every comment
\* of the list the run fetched for it.
WrittenWithComments ==
    Alive =>
        \A id \in DOMAIN wrote :
            /\ wrote[id].comments = fetched[id].comments
            /\ Len(wrote[id].public_comments) = Len(fetched[id].comments)
            /\ HoldsWritten(conn, id)

\* C24: when a remote call made while processing a ticket raises (ticket, user,
\* comments, audits, group memberships), the run has written no ticket, comment
\* or audit row for that ticket and the rows the store already had for it are
\* unchanged; a ticket row is never written without the complete comment set of
\* the same fetch.
C24_WriteAtomicity ==
    /\ [][FailsOnTicket => NothingWrittenFor(cur.tid)]_vars
    /\ []WrittenWithComments

\* C24's case: a run aborted while processing, after its comments were fetched, a
\* ticket that an earlier run had stored and whose subject has changed since.
C24_Witness ==
    /\ pc = "aborted"
    /\ \E id \in DOMAIN fetched :
          /\ ~fetched[id].finished
          /\ fetched[id].comments # <<>>
          /\ id \notin DOMAIN wrote
          /\ \E r \in committed.tickets : r.id = id /\ r.subject # remote[id].subject

(***************************************************************************)
(* Properties of the caches, checked under SpecLookups                     *)
(***************************************************************************)
\* Calls i and j look the same id up through the same function.
SameLookup(i, j) ==
    /\ calls[i].fn \in {"get_user", "get_group"}
    /\ calls[j].fn = calls[i].fn
    /\ calls[j].id = calls[i].id
\* Call j is the next lookup after call i of the id of call i.
NextLookup(i, j) ==
    /\ i < j
    /\ SameLookup(i, j)
    /\ \A k \in (i + 1)..(j - 1) : ~SameLookup(i, k)

\* C25: once get_user for a positive id, or get_group, has returned, every later
\* lookup of the same id in the process, calls of ingest() in between or not,
\* issues no remote request and returns the same value; a lookup that raised is not
\* cached: the next lookup of the id goes to the remote again.
C25_CachedLookups ==
    \A i, j \in 1..Len(calls) :
        /\ (i < j /\ SameLookup(i, j) /\ calls[i].id > 0 /\ calls[i].outcome = "returned")
              => /\ ~calls[j].requested
                 /\ calls[j].outcome = "returned"
                 /\ calls[j].value = calls[i].value
        /\ (NextLookup(i, j) /\ calls[i].outcome = "raised") => calls[j].requested

\* C25's case: a user was looked up and returned, the remote's record of the user
\* changed, ingest() was called again, and the user was looked up once more; and a
\* lookup that had raised was repeated.
C25_Witness ==
    /\ Len(calls) = 4
    /\ \E i, j, k \in 1..4 :
          /\ i < k /\ k < j
          /\ calls[k].fn = "ingest"
          /\ SameLookup(i, j)
          /\ calls[i].outcome = "returned" /\ calls[i].requested
          /\ calls[i].fn = "get_user"
          /\ l_remote.users[calls[i].id] # "v1"
    /\ \E i \in 1..3 : calls[i].outcome = "raised" /\ NextLookup(i, i + 1)

(***************************************************************************)
(* Referential consistency of the store, checked under Spec                *)
(***************************************************************************)
\* C26: in every committed state, every comment row and every audit row has a
\* ticket row with its ticket id, and every ticket row has a non-null assignee_id
\* and at least one comment row with public = 1.
C26_ReferentialConsistency ==
    /\ \A c \in committed.comments : TicketRowsOf(committed, c.ticket_id) # {}
    /\ \A a \in committed.audits : TicketRowsOf(committed, a.ticket_id) # {}
    /\ \A t \in committed.tickets :
          /\ t.assignee_id # NoId
          /\ \E c \in CommentRowsOf(committed, t.id) : c.public = 1

\* C26's case: a run that ended by a raised error has committed a ticket with an
\* internal note and a public reply among its comments.
C26_Witness ==
    /\ pc = "aborted"
    /\ \E t \in committed.tickets :
          /\ \E c \in CommentRowsOf(committed, t.id) : c.public = 0
          /\ \E c \in CommentRowsOf(committed, t.id) : c.public = 1

====
